---- MODULE Spec2Model ----
(***************************************************************************)
(* Model of the Exchange -> Gmail one-way sync of gmsync: src/sync.py      *)
(* (sync_folder_timebased, is_duplicate_email, search_gmail_for_duplicate, *)
(* cleanup_old_duplicates, to_utc_iso, from_utc_iso) and src/main.py       *)
(* (_load_runtime_state, _save_runtime_state, run_sync_once).              *)
(*                                                                         *)
(* Time is counted in minutes (an integer instant, UTC); time.time() is    *)
(* 60 * now seconds.  An optional value (Python None or a value) is the    *)
(* empty sequence or a one-element sequence; a message without Message-ID  *)
(* has mid = "" (None and "" are both falsy in the code's tests).          *)
(***************************************************************************)
EXTENDS Integers, Sequences, FiniteSets, TLC

\* ------------------------------------------------------------------------
\* Bounds of the model
\* ------------------------------------------------------------------------
MaxTicks == 1
MaxMsgs == 2
MaxPasses == 2

\* ------------------------------------------------------------------------
\* Program constants
\* ------------------------------------------------------------------------
IMPORT_LAST_DAYS == 2
SYNC_GRACE_MINUTES == 180
CLEANUP_MAX_AGE_DAYS == 30
CHECK_DUPLICATES == TRUE

MinutesPerDay == 24 * 60

NONE == <<>>
Some(x) == <<x>>

Procs == {1, 2}
Folders == {"inbox", "sent"}
Mids == {"a", ""}
\* timestamps of source messages: 220 and 400 lie exactly one grace period
\* apart, 400 is the initial wall-clock time, 5000 lies in its future
DtSet == {220, 400, 5000}
TickSteps == {IMPORT_LAST_DAYS * MinutesPerDay}

\* a message of the source mailbox: folder, Message-ID header, value of the
\* folder's ordering field (datetime_received / datetime_sent)
Universe == {m \in [folder : Folders, mid : Mids, dt : DtSet] :
                (m.folder = "sent" \/ m.mid = "") => m.dt = 400}

VARIABLES
    now,        \* wall clock, minutes
    ticks,      \* number of clock advances so far
    source,     \* messages present in the Exchange mailbox
    gmailPre,   \* Message-IDs present in Gmail before any pass (migration)
    imports,    \* per source message: number of successful import_raw calls
    stateFile,  \* content of state.json   (NONE: file absent)
    seenFile,   \* content of seen.json    (NONE: file absent)
    dupFile,    \* content of duplicates.json (NONE: file absent)
    fileGen,    \* per file: number of the pass that wrote it last (0: none)
    proc,       \* per invocation: its position and local variables
    passes,     \* number of passes started
    hist,       \* facts about the pass that finished last
    cfg,        \* the deployment's settings: TEST_LIMIT, TEST_DRY_RUN of
                \* main.py and the environment's DEEP_IMPORT_LAST_DAYS
    import_last_days,  \* the module global sync.IMPORT_LAST_DAYS
    CHECKLIST_STATE,        \* checklistbot: message_id -> item states
    LAST_CHECKLIST_MSG_ID,  \* checklistbot: id of the checklist sent last
    LAST_CHECKLIST_SENT,    \* checklistbot: time of the last cron sending
    botNow,     \* checklistbot: wall clock in TZ, minutes
    chat,       \* the checklists Telegram has accepted, in order
    botEv       \* facts about the checklistbot handler that ran last

\* the state of the checklist bot and of its surroundings
botVars == <<CHECKLIST_STATE, LAST_CHECKLIST_MSG_ID, LAST_CHECKLIST_SENT,
             botNow, chat, botEv>>

\* the state of the mail synchronisation and of its surroundings
syncVars == <<now, ticks, source, gmailPre, imports, stateFile, seenFile,
              dupFile, fileGen, proc, passes, hist, cfg, import_last_days>>

vars == <<syncVars, botVars>>

\* ------------------------------------------------------------------------
\* Time helpers (src/sync.py)
\* ------------------------------------------------------------------------

\* time.time(): wall clock in seconds
TimeTime(t) == t * 60

\* An ISO-8601 string is its wall-clock reading (local) and its UTC offset
\* (off); the instant it denotes is local - off.
\* to_utc_iso: the instant converted to UTC and formatted
to_utc_iso(dt) == [local |-> dt, off |-> 0]

\* from_utc_iso: the parsed wall-clock fields, relabelled as UTC (the offset
\* of the string is not applied)
from_utc_iso(s) == s.local

\* ------------------------------------------------------------------------
\* Runtime state (src/main.py)
\* ------------------------------------------------------------------------

\* state.get(key): None for a missing key
Get(d, k) == IF k \in DOMAIN d THEN d[k] ELSE NONE

\* state[key] = value
Put(d, k, v) == [x \in (DOMAIN d) \cup {k} |-> IF x = k THEN v ELSE d[x]]

\* state_key + "_dt"
DtKey(state_key) == state_key \o "_dt"

DefaultState == [k \in {"inbox", "sent"} |-> NONE]

\* _load_runtime_state: defaults, overridden by each file that exists and
\* parses (a file that is absent or holds invalid JSON is NONE here: both
\* load as the default)
LoadState(f) == IF f = NONE THEN DefaultState
                ELSE [k \in (DOMAIN DefaultState) \cup (DOMAIN f[1]) |->
                         IF k \in DOMAIN f[1] THEN f[1][k] ELSE DefaultState[k]]
LoadSeen(f) == IF f = NONE THEN {} ELSE f[1]
LoadDups(f) == IF f = NONE THEN {} ELSE f[1]

\* ------------------------------------------------------------------------
\* Duplicate detection (src/sync.py)
\* ------------------------------------------------------------------------

\* duplicates_db is a dict keyed by Message-ID: a set of records with
\* distinct message_id
DbKeys(db) == {r.message_id : r \in db}
DbPut(db, r) == {x \in db : x.message_id # r.message_id} \cup {r}

\* Message-IDs that Gmail holds: those present before, and every identified
\* message imported so far
GmailIds(pre, imp) == pre \cup {m.mid : m \in {x \in Universe : imp[x] > 0 /\ x.mid # ""}}

\* search_gmail_for_duplicate never finding a match
search_gmail_for_duplicate_NotFound(message_id, found, err) == FALSE

\* search_gmail_for_duplicate with a query error taken as a match
search_gmail_for_duplicate_ErrTrue(message_id, found, err) ==
    IF ~CHECK_DUPLICATES \/ message_id = "" THEN FALSE
    ELSE IF err THEN TRUE
    ELSE found

\* search_gmail_for_duplicate: found is the answer of the Gmail query, err
\* is whether the query raises
search_gmail_for_duplicate(message_id, found, err) ==
    IF ~CHECK_DUPLICATES \/ message_id = "" THEN FALSE
    ELSE IF err THEN FALSE
    ELSE found

\* whether search_gmail_for_duplicate issues the remote query
SearchQueries(message_id) == CHECK_DUPLICATES /\ message_id # ""

\* is_duplicate_email without the local check of the seen set
is_duplicate_email_NoLocalCheck(item, seen, duplicates_db, found, err, t) ==
    LET mid == item.mid
        is_dup == search_gmail_for_duplicate(mid, found, err)
        rec == [message_id |-> mid, date |-> to_utc_iso(item.dt),
                detected_at |-> TimeTime(t)]
    IN  IF ~CHECK_DUPLICATES
          THEN [dup |-> FALSE, db |-> duplicates_db, queried |-> FALSE]
        ELSE IF mid = ""
          THEN [dup |-> FALSE, db |-> duplicates_db, queried |-> FALSE]
        ELSE [dup |-> is_dup,
              db |-> IF is_dup THEN DbPut(duplicates_db, rec) ELSE duplicates_db,
              queried |-> SearchQueries(mid)]

\* is_duplicate_email taking a candidate without Message-ID for a duplicate
is_duplicate_email_FailClosed(item, seen, duplicates_db, found, err, t) ==
    LET mid == item.mid
        is_dup == search_gmail_for_duplicate(mid, found, err)
        rec == [message_id |-> mid, date |-> to_utc_iso(item.dt),
                detected_at |-> TimeTime(t)]
    IN  IF ~CHECK_DUPLICATES
          THEN [dup |-> FALSE, db |-> duplicates_db, queried |-> FALSE]
        ELSE IF mid # "" /\ mid \in seen
          THEN [dup |-> TRUE, db |-> duplicates_db, queried |-> FALSE]
        ELSE IF mid = ""
          THEN [dup |-> TRUE, db |-> duplicates_db, queried |-> FALSE]
        ELSE [dup |-> is_dup,
              db |-> IF is_dup THEN DbPut(duplicates_db, rec) ELSE duplicates_db,
              queried |-> SearchQueries(mid)]

\* is_duplicate_email that does not record the duplicate it found
is_duplicate_email_NoRecord(item, seen, duplicates_db, found, err, t) ==
    LET mid == item.mid
        is_dup == search_gmail_for_duplicate(mid, found, err)
    IN  IF ~CHECK_DUPLICATES
          THEN [dup |-> FALSE, db |-> duplicates_db, queried |-> FALSE]
        ELSE IF mid # "" /\ mid \in seen
          THEN [dup |-> TRUE, db |-> duplicates_db, queried |-> FALSE]
        ELSE IF mid = ""
          THEN [dup |-> FALSE, db |-> duplicates_db, queried |-> FALSE]
        ELSE [dup |-> is_dup, db |-> duplicates_db,
              queried |-> SearchQueries(mid)]

\* is_duplicate_email: the verdict, the duplicates_db afterwards and whether
\* the remote query was issued
is_duplicate_email(item, seen, duplicates_db, found, err, t) ==
    LET mid == item.mid
        is_dup == search_gmail_for_duplicate(mid, found, err)
        rec == [message_id |-> mid, date |-> to_utc_iso(item.dt),
                detected_at |-> TimeTime(t)]
    IN  IF ~CHECK_DUPLICATES
          THEN [dup |-> FALSE, db |-> duplicates_db, queried |-> FALSE]
        ELSE IF mid # "" /\ mid \in seen
          THEN [dup |-> TRUE, db |-> duplicates_db, queried |-> FALSE]
        ELSE IF mid = ""
          THEN [dup |-> FALSE, db |-> duplicates_db, queried |-> FALSE]
        ELSE [dup |-> is_dup,
              db |-> IF is_dup THEN DbPut(duplicates_db, rec) ELSE duplicates_db,
              queried |-> SearchQueries(mid)]

\* cleanup_old_duplicates, lines 289-292: keys_to_remove
KeysToRemove(duplicates_db, max_age_days, t) ==
    {r.message_id : r \in {x \in duplicates_db :
        x.detected_at < TimeTime(t) - max_age_days * 24 * 3600}}

\* the sweep taking a record of exactly the maximum age for stale
cleanup_old_duplicates_Inclusive(duplicates_db, max_age_days, t) ==
    {r \in duplicates_db :
        ~(r.detected_at <= TimeTime(t) - max_age_days * 24 * 3600)}

\* cleanup_old_duplicates: the records kept
cleanup_old_duplicates(duplicates_db, max_age_days, t) ==
    {r \in duplicates_db :
        r.message_id \notin KeysToRemove(duplicates_db, max_age_days, t)}

\* cleanup_old_duplicates, line 300: the number it returns
CleanupReturn(duplicates_db, max_age_days, t) ==
    Cardinality(KeysToRemove(duplicates_db, max_age_days, t))

\* ------------------------------------------------------------------------
\* Window planning and listing (src/sync.py, sync_folder_timebased)
\* ------------------------------------------------------------------------

\* the watermark read from state, a future one replaced by the wall clock
\* itself
LastDt_ClampToNow(state, state_key, ignore_state, t) ==
    LET last_dt_iso == IF ~ignore_state THEN Get(state, DtKey(state_key)) ELSE NONE
        last_dt == IF last_dt_iso # NONE THEN Some(from_utc_iso(last_dt_iso[1])) ELSE NONE
    IN  IF last_dt # NONE /\ last_dt[1] > t THEN Some(t) ELSE last_dt

\* lines 419-433: the watermark read from state, clamped when in the future
LastDt(state, state_key, ignore_state, t) ==
    LET last_dt_iso == IF ~ignore_state THEN Get(state, DtKey(state_key)) ELSE NONE
        last_dt == IF last_dt_iso # NONE THEN Some(from_utc_iso(last_dt_iso[1])) ELSE NONE
    IN  IF last_dt # NONE /\ last_dt[1] > t THEN Some(t - 1) ELSE last_dt

\* the threshold taken as the earlier of the two bounds
Threshold_Earlier(last_dt, ignore_state, days, t) ==
    LET cutoff_ews == IF days # 0
                      THEN Some(t - days * MinutesPerDay) ELSE NONE
        effective_last_ews == IF last_dt # NONE /\ ~ignore_state
                              THEN Some(last_dt[1] - SYNC_GRACE_MINUTES) ELSE NONE
    IN  IF cutoff_ews # NONE /\ effective_last_ews # NONE
          THEN IF cutoff_ews[1] < effective_last_ews[1]
               THEN cutoff_ews ELSE effective_last_ews
        ELSE IF effective_last_ews # NONE THEN effective_last_ews ELSE cutoff_ews

\* lines 445-458: the later of the age cutoff and the watermark minus grace
Threshold(last_dt, ignore_state, days, t) ==
    LET cutoff_ews == IF days # 0
                      THEN Some(t - days * MinutesPerDay) ELSE NONE
        effective_last_ews == IF last_dt # NONE /\ ~ignore_state
                              THEN Some(last_dt[1] - SYNC_GRACE_MINUTES) ELSE NONE
    IN  IF cutoff_ews # NONE /\ effective_last_ews # NONE
          THEN IF cutoff_ews[1] > effective_last_ews[1]
               THEN cutoff_ews ELSE effective_last_ews
        ELSE IF effective_last_ews # NONE THEN effective_last_ews ELSE cutoff_ews

\* lines 435-461: the items of the folder that pass the __gt filter
Filtered(src, folder, threshold) ==
    {m \in src : m.folder = folder /\ (threshold = NONE \/ m.dt > threshold[1])}

\* line 477: order_by(dt_field): every ascending arrangement of the items
\* (the order of items with equal timestamps is the server's choice)
Orderings(S) ==
    {q \in [1..Cardinality(S) -> S] :
        /\ \A i, j \in 1..Cardinality(S) : i # j => q[i] # q[j]
        /\ \A i, j \in 1..Cardinality(S) : i < j => q[i].dt <= q[j].dt}

\* the listing handed on whole, whatever the limit
Slice_NoCut(q, limit) == q

\* lines 478-482: qs[:limit] when limit is truthy (0 is no limit)
Slice(q, limit) == IF limit # 0 /\ Len(q) > limit THEN SubSeq(q, 1, limit) ELSE q

\* "x > newest" update of the running newest timestamp
Advance(newest, dt_val) ==
    IF newest = NONE \/ dt_val > newest[1] THEN Some(dt_val) ELSE newest

\* ------------------------------------------------------------------------
\* State
\* ------------------------------------------------------------------------

NoItem == [folder |-> "inbox", mid |-> "", dt |-> 0]

\* the last candidate a folder pass examined, what was done with it, and
\* the values the pass held just before
NoEvent == [kind |-> "none", item |-> NoItem, queried |-> FALSE, qerr |-> FALSE,
            found |-> FALSE, seen0 |-> {}, db0 |-> {}, count0 |-> 0,
            dups0 |-> 0, calls0 |-> 0]

\* what a folder pass held when it listed its folder: state, seen,
\* duplicates_db and the wall clock
NoListing == [state |-> DefaultState, seen |-> {}, duplicates_db |-> {}, t |-> 0]

NoHist == [mode |-> "none", saved |-> FALSE, returned |-> "none",
           failedAt |-> "none", failed |-> {}, arrived |-> FALSE,
           before |-> NONE]

IdleProc ==
    [pc |-> "idle", mode |-> "none", id |-> 0,
     state |-> DefaultState, seen |-> {}, duplicates_db |-> {},
     files0 |-> <<NONE, NONE, NONE>>,
     old_import_last_days |-> 0, remaining |-> 0,
     state_key |-> "inbox", ignore_state |-> FALSE, ignore_seen |-> FALSE,
     dry_run |-> FALSE, limit |-> 0,
     last_dt |-> NONE, threshold |-> NONE, tnow |-> 0,
     qs |-> <<>>, listed |-> {}, count |-> 0, duplicates_skipped |-> 0,
     newest |-> NONE, calls |-> 0, failed |-> {}, ev |-> NoEvent,
     follows |-> FALSE, prevFailed |-> {}, window |-> <<>>, done |-> <<>>,
     removed |-> 0, at |-> [f \in Folders |-> NoListing], imported |-> {}]

\* ------------------------------------------------------------------------
\* The checklist bot (src/checklistbot/bot.py)
\* ------------------------------------------------------------------------

\* len(CHECKLIST_TEMPLATE)
TemplateLen == 15

\* the chat of the daily checklist (the environment's CHAT_ID)
CHAT_ID == 7

PIN_MESSAGE == TRUE

\* how many handler calls, checklists accepted by Telegram and advances of
\* the bot's clock are followed
MaxCalls == 3
MaxSent == 2
MaxBotTicks == 3

\* the message_ids Telegram gives to the checklists, in the order sent
MsgIdSet == 1..MaxSent

\* the bot starts at 23:00 of day 0; its clock advances in these steps
BotStart == 23 * 60
BotTickSteps == {30, 60}

\* now.strftime("%Y-%m-%d"): the calendar day of a time in TZ
Today(t) == t \div MinutesPerDay

\* [False] * len(CHECKLIST_TEMPLATE)
AllFalse == [i \in 1..TemplateLen |-> FALSE]

\* a text is the sequence of its characters
Digits == <<"0", "1", "2", "3", "4", "5", "6", "7", "8", "9">>
IsDigit(c) == \E d \in 1..10 : Digits[d] = c
DigitValue(c) == (CHOOSE d \in 1..10 : Digits[d] = c) - 1

\* str.startswith
startswith(text, prefix) ==
    /\ Len(text) >= Len(prefix)
    /\ SubSeq(text, 1, Len(prefix)) = prefix

\* the whitespace int() ignores around the number
RECURSIVE lstrip(_)
lstrip(text) ==
    IF text # <<>> /\ Head(text) = " " THEN lstrip(Tail(text)) ELSE text

RECURSIVE rstrip(_)
rstrip(text) ==
    IF text # <<>> /\ text[Len(text)] = " "
    THEN rstrip(SubSeq(text, 1, Len(text) - 1))
    ELSE text

RECURSIVE DecimalValue(_)
DecimalValue(ds) ==
    IF ds = <<>> THEN 0
    ELSE 10 * DecimalValue(SubSeq(ds, 1, Len(ds) - 1)) + DigitValue(ds[Len(ds)])

\* int(text): NONE where Python raises ValueError
ParseInt(text) ==
    LET t == rstrip(lstrip(text))
        signed == t # <<>> /\ t[1] \in {"+", "-"}
        body == IF signed THEN Tail(t) ELSE t
    IN  IF body # <<>> /\ \A i \in 1..Len(body) : IsDigit(body[i])
        THEN Some(IF signed /\ t[1] = "-" THEN 0 - DecimalValue(body)
                                          ELSE DecimalValue(body))
        ELSE NONE

\* data.split(":", 1)[1]: NONE where Python raises IndexError
SplitTail(data) ==
    IF \E i \in 1..Len(data) : data[i] = ":"
    THEN LET k == CHOOSE i \in 1..Len(data) :
                     /\ data[i] = ":"
                     /\ \A j \in 1..(i - 1) : data[j] # ":"
         IN  Some(SubSeq(data, k + 1, Len(data)))
    ELSE NONE

\* the index a callback's data names: NONE where handle_update returns
\* before it looks at the message
CallbackIndex(data) ==
    IF ~startswith(data, <<"t", ":">>) THEN NONE
    ELSE IF SplitTail(data) = NONE THEN NONE
    ELSE ParseInt(SplitTail(data)[1])

\* states[idx] = not states[idx] (Python counts from 0)
Toggle(states, idx) == [states EXCEPT ![idx + 1] = ~@]

\* the callback branch of handle_update after the answer to Telegram:
\* CHECKLIST_STATE as it leaves it. Whether edit_message then succeeds or
\* raises changes nothing: the exception is caught on the spot.
callback_query(cs, data, chat_id, msg_id) ==
    LET idx == CallbackIndex(data) IN
    IF idx = NONE THEN cs
    ELSE IF chat_id = NONE \/ msg_id = NONE THEN cs
    ELSE LET id == msg_id[1]
             states == IF cs[id] = NONE THEN AllFalse ELSE cs[id][1]
         IN  [cs EXCEPT ![id] =
                Some(IF 0 <= idx[1] /\ idx[1] < Len(states)
                     THEN Toggle(states, idx[1])
                     ELSE states)]

\* what Telegram does with a new checklist: send_message raises (no
\* connection, timeout), sendMessage is answered with an error, the message
\* is accepted and pinned or not pinned, the message is accepted and the
\* pinChatMessage request raises
SendOutcomes == {"sendraise", "rejected", "ok", "pinraise"}

\* create_and_send_checklist: the globals and the chat as it leaves them,
\* and whether it raised
create_and_send_checklist(chat_id, outcome, via) ==
    IF outcome \in {"sendraise", "rejected"}
    THEN [cs |-> CHECKLIST_STATE, last |-> LAST_CHECKLIST_MSG_ID,
          chat |-> chat, raised |-> (outcome = "sendraise")]
    ELSE LET msg_id == Len(chat) + 1 IN
         [cs |-> [CHECKLIST_STATE EXCEPT ![msg_id] = Some(AllFalse)],
          last |-> Some(msg_id),
          chat |-> Append(chat, [id |-> msg_id, chat_id |-> chat_id,
                                 at |-> botNow, via |-> via]),
          raised |-> (PIN_MESSAGE /\ outcome = "pinraise")]

\* the guard of daily_checklist
AlreadySent(last_sent, t) ==
    /\ last_sent # NONE
    /\ Today(last_sent[1]) = Today(t)
    /\ (t - last_sent[1]) * 60 < 3600

NoBotEv == [n |-> 0, kind |-> "none", data |-> <<>>, chat_id |-> NONE,
            msg_id |-> NONE, raised |-> FALSE, result |-> "none",
            before |-> [i \in MsgIdSet |-> NONE], chatBefore |-> <<>>]

\* the bot's process after start: the module globals of lines 67-74
InitBot ==
    /\ CHECKLIST_STATE = [i \in MsgIdSet |-> NONE]
    /\ LAST_CHECKLIST_MSG_ID = NONE
    /\ LAST_CHECKLIST_SENT = NONE
    /\ botNow = BotStart
    /\ chat = <<>>
    /\ botEv = NoBotEv

BotTick ==
    /\ botNow < BotStart + MaxBotTicks * 30
    /\ \E d \in BotTickSteps : botNow' = botNow + d
    /\ UNCHANGED <<CHECKLIST_STATE, LAST_CHECKLIST_MSG_ID,
                   LAST_CHECKLIST_SENT, chat, botEv>>
    /\ UNCHANGED syncVars

\* the texts and the chats of the messages Telegram reports
Texts == {<<"/", "n", "o", "w">>, <<"/", "s", "t", "a", "r", "t">>, <<>>}
ChatIds == {NONE, Some(CHAT_ID)}

\* telegram_webhook with a message update: handle_update, any exception
\* caught and answered with "ok"
WebhookMessage ==
    /\ botEv.n < MaxCalls
    /\ \E text \in Texts, chat_id \in ChatIds, outcome \in SendOutcomes :
          LET now_cmd == /\ chat_id # NONE /\ text # <<>>
                         /\ ~startswith(text, <<"/", "s", "t", "a", "r", "t">>)
                         /\ ~startswith(text, <<"/", "g", "e", "t", "c", "h",
                                                "a", "t", "i", "d">>)
                         /\ startswith(text, <<"/", "n", "o", "w">>)
              r == create_and_send_checklist(chat_id[1], outcome, "now")
          IN  /\ now_cmd /\ outcome \in {"ok", "pinraise"} => Len(chat) < MaxSent
              /\ ~now_cmd => outcome = "ok"
              /\ CHECKLIST_STATE' = IF now_cmd THEN r.cs ELSE CHECKLIST_STATE
              /\ LAST_CHECKLIST_MSG_ID' =
                    IF now_cmd THEN r.last ELSE LAST_CHECKLIST_MSG_ID
              /\ chat' = IF now_cmd THEN r.chat ELSE chat
              /\ botEv' = [NoBotEv EXCEPT
                             !.n = botEv.n + 1, !.kind = "message",
                             !.data = text, !.chat_id = chat_id,
                             !.raised = (now_cmd /\ r.raised),
                             !.result = IF now_cmd THEN outcome ELSE "none",
                             !.before = CHECKLIST_STATE,
                             !.chatBefore = chat]
    /\ UNCHANGED <<LAST_CHECKLIST_SENT, botNow>>
    /\ UNCHANGED syncVars

\* the data of the callbacks Telegram reports
DataSet == {<<"t", ":", "0">>, <<"t", ":", "1", "4">>, <<"t", ":", "1", "5">>,
            <<"t", ":", "-", "1">>, <<"t", ":", " ", "0">>, <<"t", ":", "x">>,
            <<"t", ":">>, <<"x", ":", "0">>, <<>>}

\* telegram_webhook with a callback update: handle_update, any exception
\* caught and answered with "ok". A callback with an id is answered first,
\* and answer_callback_query raises when the request to Telegram fails.
WebhookCallback ==
    /\ botEv.n < MaxCalls
    /\ \E cq_id \in BOOLEAN, answerRaises \in BOOLEAN, data \in DataSet,
          chat_id \in ChatIds, msg_id \in {NONE} \cup {Some(i) : i \in MsgIdSet} :
          /\ answerRaises => cq_id
          /\ CHECKLIST_STATE' =
                IF answerRaises THEN CHECKLIST_STATE
                ELSE callback_query(CHECKLIST_STATE, data, chat_id, msg_id)
          /\ botEv' = [NoBotEv EXCEPT
                         !.n = botEv.n + 1, !.kind = "callback",
                         !.data = data, !.chat_id = chat_id,
                         !.msg_id = msg_id, !.raised = answerRaises,
                         !.before = CHECKLIST_STATE, !.chatBefore = chat]
    /\ UNCHANGED <<LAST_CHECKLIST_MSG_ID, LAST_CHECKLIST_SENT, botNow, chat>>
    /\ UNCHANGED syncVars

\* daily_checklist: skip inside the guard; else send, and record the time
\* of the call unless create_and_send_checklist raised
DailyChecklist ==
    /\ botEv.n < MaxCalls
    /\ \E outcome \in SendOutcomes :
          LET skip == AlreadySent(LAST_CHECKLIST_SENT, botNow)
              r == create_and_send_checklist(CHAT_ID, outcome, "cron")
          IN  /\ ~skip /\ outcome \in {"ok", "pinraise"} => Len(chat) < MaxSent
              /\ skip => outcome = "ok"
              /\ CHECKLIST_STATE' = IF skip THEN CHECKLIST_STATE ELSE r.cs
              /\ LAST_CHECKLIST_MSG_ID' =
                    IF skip THEN LAST_CHECKLIST_MSG_ID ELSE r.last
              /\ chat' = IF skip THEN chat ELSE r.chat
              /\ LAST_CHECKLIST_SENT' =
                    IF skip \/ r.raised THEN LAST_CHECKLIST_SENT
                    ELSE Some(botNow)
              /\ botEv' = [NoBotEv EXCEPT
                             !.n = botEv.n + 1, !.kind = "daily",
                             !.chat_id = Some(CHAT_ID),
                             !.raised = (~skip /\ r.raised),
                             !.result = IF skip THEN "skipped" ELSE outcome,
                             !.before = CHECKLIST_STATE,
                             !.chatBefore = chat]
    /\ UNCHANGED botNow
    /\ UNCHANGED syncVars

\* main.py lines 35-36 as shipped, DEEP_IMPORT_LAST_DAYS not set
DefaultCfg == [TEST_LIMIT |-> NONE, TEST_DRY_RUN |-> FALSE, deep_days |-> NONE]

\* the state when the service starts with the settings c and the three
\* files holding st, se and du
InitFiles(c, st, se, du) ==
    /\ now = 400
    /\ ticks = 0
    /\ source = {}
    /\ gmailPre \in {{}, {"a"}}
    /\ imports = [m \in Universe |-> 0]
    /\ stateFile = st
    /\ seenFile = se
    /\ dupFile = du
    /\ fileGen = [f \in {"state", "seen", "dups"} |-> 0]
    /\ proc = [p \in Procs |-> IdleProc]
    /\ passes = 0
    /\ hist = NoHist
    /\ cfg = c
    /\ import_last_days = IMPORT_LAST_DAYS
    /\ InitBot

\* the state after deployment, for the settings c: no file yet
InitWith(c) == InitFiles(c, NONE, NONE, NONE)

Init == InitWith(DefaultCfg)

\* ------------------------------------------------------------------------
\* Environment
\* ------------------------------------------------------------------------

\* the wall clock advances
Tick(d) ==
    /\ ticks < MaxTicks
    /\ now' = now + d
    /\ ticks' = ticks + 1
    /\ UNCHANGED botVars
    /\ UNCHANGED <<source, gmailPre, imports, stateFile, seenFile, dupFile,
                   fileGen, proc, passes, hist, cfg, import_last_days>>

\* a message appears in the source mailbox.  A message that arrives while a
\* pass runs is met by that pass or by the next one exactly as if it had
\* arrived just before or just after the pass, so arrivals are taken
\* between passes.
Arrive(m) ==
    /\ \A p \in Procs : proc[p].pc = "idle"
    /\ m \notin source
    /\ Cardinality(source) < MaxMsgs
    /\ source' = source \cup {m}
    /\ hist' = [hist EXCEPT !.arrived = TRUE]
    /\ UNCHANGED botVars
    /\ UNCHANGED <<now, ticks, gmailPre, imports, stateFile, seenFile, dupFile,
                   fileGen, proc, passes, cfg, import_last_days>>

\* a message appears in the source mailbox while a pass is running: a folder
\* pass that has listed the folder does not meet it, one that lists later
\* does
ArriveLate(m) ==
    /\ \E p \in Procs : proc[p].pc # "idle"
    /\ m \notin source
    /\ Cardinality(source) < MaxMsgs
    /\ source' = source \cup {m}
    /\ hist' = [hist EXCEPT !.arrived = TRUE]
    /\ UNCHANGED botVars
    /\ UNCHANGED <<now, ticks, gmailPre, imports, stateFile, seenFile, dupFile,
                   fileGen, proc, passes, cfg, import_last_days>>

\* ------------------------------------------------------------------------
\* run_sync_once, run_sync_deep_once (src/main.py)
\* ------------------------------------------------------------------------

\* what a trigger runs: /tasks/sync is the test pass when TEST_LIMIT is set
ModeOf(trigger, c) ==
    IF trigger = "sync_deep" THEN "deep"
    ELSE IF c.TEST_LIMIT # NONE THEN "test" ELSE "fast"

\* the pass of invocation p ends: its locals are dropped; a deep pass puts
\* IMPORT_LAST_DAYS back (main.py lines 271-274)
Finish(p, saved, returned) ==
    /\ proc' = [proc EXCEPT ![p] = IdleProc]
    /\ hist' = [hist EXCEPT !.mode = proc[p].mode, !.saved = saved,
                            !.returned = returned, !.failedAt = proc[p].pc,
                            !.failed = proc[p].failed]
    /\ import_last_days' =
          IF proc[p].mode = "deep" /\ proc[p].pc # "connect"
          THEN proc[p].old_import_last_days ELSE import_last_days

\* main.py lines 82-86, 201-204: the trigger starts a pass, which loads the
\* three files
Start(p, trigger) ==
    /\ proc[p].pc = "idle"
    /\ passes < MaxPasses
    /\ passes' = passes + 1
    /\ proc' = [proc EXCEPT ![p] =
          [IdleProc EXCEPT !.pc = "connect", !.mode = ModeOf(trigger, cfg),
                           !.id = passes + 1,
                           !.state = LoadState(stateFile),
                           !.seen = LoadSeen(seenFile),
                           !.duplicates_db = LoadDups(dupFile),
                           !.files0 = <<stateFile, seenFile, dupFile>>,
                           !.follows = /\ hist.mode = "fast"
                                       /\ hist.saved
                                       /\ hist.failed = {}
                                       /\ ~hist.arrived,
                           !.prevFailed = IF hist.mode = "fast" /\ hist.saved
                                          THEN hist.failed ELSE {}]]
    /\ hist' = [hist EXCEPT !.arrived = FALSE]
    /\ UNCHANGED botVars
    /\ UNCHANGED <<now, ticks, source, gmailPre, imports, stateFile, seenFile,
                   dupFile, fileGen, cfg, import_last_days>>

\* the arguments the pass gives sync_folder_timebased for its first folder
\* (main.py lines 107-121, 158-167, 230-243)
FirstFolder(r, mode, c) ==
    [r EXCEPT !.pc = "list",
              !.state_key = IF mode = "deep" THEN "inbox_deep" ELSE "inbox",
              !.ignore_state = mode \in {"deep", "test"},
              !.ignore_seen = (mode = "test"),
              !.dry_run = (mode = "test" /\ c.TEST_DRY_RUN),
              !.remaining = IF mode = "test" THEN c.TEST_LIMIT[1] ELSE 0,
              !.limit = IF mode = "test" THEN c.TEST_LIMIT[1] ELSE 0]

\* main.py lines 88-95 and 151 (fast pass: the duplicate cache is swept),
\* lines 206-225 (deep pass: IMPORT_LAST_DAYS is replaced)
Connect(p) ==
    /\ proc[p].pc = "connect"
    /\ LET r == proc[p]
           swept == IF r.mode = "fast"
                    THEN cleanup_old_duplicates(r.duplicates_db,
                                                CLEANUP_MAX_AGE_DAYS, now)
                    ELSE r.duplicates_db
           removed == IF r.mode = "fast"
                      THEN CleanupReturn(r.duplicates_db,
                                         CLEANUP_MAX_AGE_DAYS, now)
                      ELSE 0
       IN  proc' = [proc EXCEPT ![p] =
              FirstFolder([r EXCEPT !.duplicates_db = swept,
                                    !.removed = removed,
                                    !.old_import_last_days = import_last_days],
                          r.mode, cfg)]
    /\ import_last_days' =
          IF proc[p].mode = "deep" /\ cfg.deep_days # NONE /\ cfg.deep_days[1] > 0
          THEN cfg.deep_days[1] ELSE import_last_days
    /\ UNCHANGED botVars
    /\ UNCHANGED <<now, ticks, source, gmailPre, imports, stateFile, seenFile,
                   dupFile, fileGen, passes, hist, cfg>>

\* main.py lines 88-90, 206-207: ews_account or gmail_service raises;
\* nothing catches it
ConnectFail(p) ==
    /\ proc[p].pc = "connect"
    /\ Finish(p, FALSE, "raised")
    /\ UNCHANGED botVars
    /\ UNCHANGED <<now, ticks, source, gmailPre, imports, stateFile, seenFile,
                   dupFile, fileGen, passes, cfg>>

\* ------------------------------------------------------------------------
\* sync_folder_timebased (src/sync.py)
\* ------------------------------------------------------------------------

\* the source folder a state key belongs to
FolderOf(state_key) == IF state_key \in {"inbox", "inbox_deep"} THEN "inbox" ELSE "sent"

\* the test of line 491 with the flag taken the wrong way round
SeenSkip_Inverted(ignore_seen, mid, seen) == ignore_seen /\ mid # "" /\ mid \in seen

\* line 491: the candidate is skipped as already seen
SeenSkip(ignore_seen, mid, seen) == ~ignore_seen /\ mid # "" /\ mid \in seen

\* the seen set left as it is by a successful import_raw
SeenAfterImport_Unchanged(seen, mid) == seen

\* lines 510-511: the seen set after a successful import_raw
SeenAfterImport(seen, mid) == IF mid # "" THEN seen \cup {mid} ELSE seen

\* line 525: the loop breaks
LimitReached(limit, count) == limit # 0 /\ count >= limit

\* the state after the loop, the newest timestamp written as it is
FinalState_NoClamp(state, state_key, newest, ignore_state, dry_run, t) ==
    IF newest # NONE /\ ~ignore_state /\ ~dry_run
    THEN Put(state, DtKey(state_key), Some(to_utc_iso(newest[1])))
    ELSE state

\* the state after the loop, the wall clock written as the watermark when
\* no timestamp was observed
FinalState_AlwaysWrites(state, state_key, newest, ignore_state, dry_run, t) ==
    IF ~ignore_state /\ ~dry_run
    THEN Put(state, DtKey(state_key),
             Some(to_utc_iso(IF newest = NONE \/ newest[1] > t THEN t ELSE newest[1])))
    ELSE state

\* the state after the loop, the watermark written under the key of the
\* folder whether or not the pass ignores the state
FinalState_FolderKey(state, state_key, newest, ignore_state, dry_run, t) ==
    IF newest # NONE /\ ~dry_run
    THEN Put(state, DtKey(FolderOf(state_key)),
             Some(to_utc_iso(IF newest[1] > t THEN t ELSE newest[1])))
    ELSE state

\* lines 528-537: the state after the loop
FinalState(state, state_key, newest, ignore_state, dry_run, t) ==
    IF newest # NONE /\ ~ignore_state /\ ~dry_run
    THEN Put(state, DtKey(state_key),
             Some(to_utc_iso(IF newest[1] > t THEN t ELSE newest[1])))
    ELSE state

\* the candidate the loop is at, and Gmail's answer to a query for it
Item(p) == Head(proc[p].qs)
Found(p) == Item(p).mid \in GmailIds(gmailPre, imports)
Verdict(p, err) ==
    is_duplicate_email(Item(p), proc[p].seen, proc[p].duplicates_db,
                       Found(p), err, now)

\* what the loop-step actions record about the candidate at hand
Event(p, kind, queried, err) ==
    [kind |-> kind, item |-> Item(p), queried |-> queried, qerr |-> err,
     found |-> Found(p), seen0 |-> proc[p].seen,
     db0 |-> proc[p].duplicates_db, count0 |-> proc[p].count,
     dups0 |-> proc[p].duplicates_skipped, calls0 |-> proc[p].calls]

\* the candidates the folder pass has dealt with so far, each with what was
\* done with it
Done(p, kind) == Append(proc[p].done, [item |-> Item(p), kind |-> kind])

\* where the loop goes after a candidate: the next one, or past the loop
AfterItem(p, count) ==
    IF Tail(proc[p].qs) = <<>> \/ LimitReached(proc[p].limit, count)
    THEN "finalize" ELSE "loop"

\* lines 419-486: window planning, listing, locals initialised
ListFolder(p) ==
    /\ proc[p].pc = "list"
    /\ LET r == proc[p]
           last_dt == LastDt(r.state, r.state_key, r.ignore_state, now)
           threshold == Threshold(last_dt, r.ignore_state, import_last_days, now)
           items == Filtered(source, FolderOf(r.state_key), threshold)
       IN  \E q \in Orderings(items) :
             proc' = [proc EXCEPT ![p] =
                [r EXCEPT !.last_dt = last_dt, !.threshold = threshold,
                          !.tnow = now, !.qs = Slice(q, r.limit),
                          !.window = q, !.done = <<>>,
                          !.at = [r.at EXCEPT ![FolderOf(r.state_key)] =
                                    [state |-> r.state, seen |-> r.seen,
                                     duplicates_db |-> r.duplicates_db,
                                     t |-> now]],
                          !.listed = items, !.count = 0,
                          !.duplicates_skipped = 0, !.newest = last_dt,
                          !.ev = NoEvent,
                          !.pc = IF q = <<>> THEN "finalize" ELSE "loop"]]
    /\ UNCHANGED botVars
    /\ UNCHANGED <<now, ticks, source, gmailPre, imports, stateFile, seenFile,
                   dupFile, fileGen, passes, hist, cfg, import_last_days>>

\* a failing folder pass that writes the state it has reached before it
\* gives up
ListFail_Flush(p) ==
    /\ proc[p].pc \in {"list", "loop"}
    /\ stateFile' = Some(proc[p].state)
    /\ Finish(p, FALSE, IF proc[p].mode = "test" THEN "raised" ELSE "ok")
    /\ UNCHANGED botVars
    /\ UNCHANGED <<now, ticks, source, gmailPre, imports, seenFile,
                   dupFile, fileGen, passes, cfg>>

\* line 488: fetching the candidates raises; the fast and the deep pass
\* catch it (main.py lines 191, 269) and return without saving, the test
\* pass lets it through
ListFail(p) ==
    /\ proc[p].pc \in {"list", "loop"}
    /\ Finish(p, FALSE, IF proc[p].mode = "test" THEN "raised" ELSE "ok")
    /\ UNCHANGED botVars
    /\ UNCHANGED <<now, ticks, source, gmailPre, imports, stateFile, seenFile,
                   dupFile, fileGen, passes, cfg>>

\* lines 491-495: already seen
SkipSeen(p) ==
    /\ proc[p].pc = "loop"
    /\ SeenSkip(proc[p].ignore_seen, Item(p).mid, proc[p].seen)
    /\ proc' = [proc EXCEPT ![p] =
          [proc[p] EXCEPT !.newest = Advance(proc[p].newest, Item(p).dt),
                          !.ev = Event(p, "seen", FALSE, FALSE),
                          !.done = Done(p, "seen"),
                          !.qs = Tail(proc[p].qs),
                          !.pc = AfterItem(p, proc[p].count)]]
    /\ UNCHANGED botVars
    /\ UNCHANGED <<now, ticks, source, gmailPre, imports, stateFile, seenFile,
                   dupFile, fileGen, passes, hist, cfg, import_last_days>>

\* lines 497-505: is_duplicate_email says duplicate
SkipDuplicate(p) ==
    /\ proc[p].pc = "loop"
    /\ ~SeenSkip(proc[p].ignore_seen, Item(p).mid, proc[p].seen)
    /\ \E err \in BOOLEAN :
         /\ Verdict(p, err).dup
         /\ err => Verdict(p, err).queried
         /\ proc' = [proc EXCEPT ![p] =
              [proc[p] EXCEPT !.duplicates_skipped = proc[p].duplicates_skipped + 1,
                              !.duplicates_db = Verdict(p, err).db,
                              !.newest = Advance(proc[p].newest, Item(p).dt),
                              !.ev = Event(p, "dup", Verdict(p, err).queried, err),
                              !.done = Done(p, "dup"),
                              !.qs = Tail(proc[p].qs),
                              !.pc = AfterItem(p, proc[p].count)]]
    /\ UNCHANGED botVars
    /\ UNCHANGED <<now, ticks, source, gmailPre, imports, stateFile, seenFile,
                   dupFile, fileGen, passes, hist, cfg, import_last_days>>

\* lines 507-526, import_raw returns
ImportOk(p) ==
    /\ proc[p].pc = "loop"
    /\ ~SeenSkip(proc[p].ignore_seen, Item(p).mid, proc[p].seen)
    /\ ~proc[p].dry_run
    /\ \E err \in BOOLEAN :
         /\ ~Verdict(p, err).dup
         /\ err => Verdict(p, err).queried
         /\ proc' = [proc EXCEPT ![p] =
              [proc[p] EXCEPT !.duplicates_db = Verdict(p, err).db,
                              !.seen = SeenAfterImport(proc[p].seen, Item(p).mid),
                              !.count = proc[p].count + 1,
                              !.calls = proc[p].calls + 1,
                              !.newest = Advance(proc[p].newest, Item(p).dt),
                              !.ev = Event(p, "imported", Verdict(p, err).queried, err),
                              !.done = Done(p, "imported"),
                              !.imported = proc[p].imported \cup ({Item(p).mid} \ {""}),
                              !.qs = Tail(proc[p].qs),
                              !.pc = AfterItem(p, proc[p].count + 1)]]
    /\ imports' = [imports EXCEPT ![Item(p)] = imports[Item(p)] + 1]
    /\ UNCHANGED botVars
    /\ UNCHANGED <<now, ticks, source, gmailPre, stateFile, seenFile,
                   dupFile, fileGen, passes, hist, cfg, import_last_days>>

\* ImportFail, but with the identifier of the failed candidate put into the
\* seen set
ImportFail_Marked(p) ==
    /\ proc[p].pc = "loop"
    /\ ~SeenSkip(proc[p].ignore_seen, Item(p).mid, proc[p].seen)
    /\ ~proc[p].dry_run
    /\ \E err \in BOOLEAN :
         /\ ~Verdict(p, err).dup
         /\ err => Verdict(p, err).queried
         /\ proc' = [proc EXCEPT ![p] =
              [proc[p] EXCEPT !.duplicates_db = Verdict(p, err).db,
                              !.seen = SeenAfterImport(proc[p].seen, Item(p).mid),
                              !.calls = proc[p].calls + 1,
                              !.failed = proc[p].failed \cup {Item(p)},
                              !.ev = Event(p, "import_failed", Verdict(p, err).queried, err),
                              !.done = Done(p, "import_failed"),
                              !.qs = Tail(proc[p].qs),
                              !.pc = AfterItem(p, proc[p].count)]]
    /\ UNCHANGED botVars
    /\ UNCHANGED <<now, ticks, source, gmailPre, imports, stateFile, seenFile,
                   dupFile, fileGen, passes, hist, cfg, import_last_days>>

\* lines 507-526, import_raw raises: caught at line 522, nothing counted
ImportFail(p) ==
    /\ proc[p].pc = "loop"
    /\ ~SeenSkip(proc[p].ignore_seen, Item(p).mid, proc[p].seen)
    /\ ~proc[p].dry_run
    /\ \E err \in BOOLEAN :
         /\ ~Verdict(p, err).dup
         /\ err => Verdict(p, err).queried
         /\ proc' = [proc EXCEPT ![p] =
              [proc[p] EXCEPT !.duplicates_db = Verdict(p, err).db,
                              !.calls = proc[p].calls + 1,
                              !.failed = proc[p].failed \cup {Item(p)},
                              !.ev = Event(p, "import_failed", Verdict(p, err).queried, err),
                              !.done = Done(p, "import_failed"),
                              !.qs = Tail(proc[p].qs),
                              !.pc = AfterItem(p, proc[p].count)]]
    /\ UNCHANGED botVars
    /\ UNCHANGED <<now, ticks, source, gmailPre, imports, stateFile, seenFile,
                   dupFile, fileGen, passes, hist, cfg, import_last_days>>

\* lines 497-505 alone: the duplicate check of a candidate that is to be
\* imported answers "not a duplicate"; import_raw is not called yet, so that
\* another pass may run between the check and the call
CheckDuplicate(p, err) ==
    /\ proc[p].pc = "loop"
    /\ ~SeenSkip(proc[p].ignore_seen, Item(p).mid, proc[p].seen)
    /\ ~proc[p].dry_run
    /\ ~Verdict(p, err).dup
    /\ err => Verdict(p, err).queried
    /\ proc' = [proc EXCEPT ![p] =
         [proc[p] EXCEPT !.duplicates_db = Verdict(p, err).db,
                         !.ev = Event(p, "checked", Verdict(p, err).queried, err),
                         !.pc = "import"]]
    /\ UNCHANGED botVars
    /\ UNCHANGED <<now, ticks, source, gmailPre, imports, stateFile, seenFile,
                   dupFile, fileGen, passes, hist, cfg, import_last_days>>

\* lines 507-526 alone, import_raw returns for the candidate checked before
ImportChecked(p) ==
    /\ proc[p].pc = "import"
    /\ proc' = [proc EXCEPT ![p] =
         [proc[p] EXCEPT !.seen = SeenAfterImport(proc[p].seen, Item(p).mid),
                         !.count = proc[p].count + 1,
                         !.calls = proc[p].calls + 1,
                         !.newest = Advance(proc[p].newest, Item(p).dt),
                         !.ev = [proc[p].ev EXCEPT !.kind = "imported"],
                         !.done = Done(p, "imported"),
                         !.imported = proc[p].imported \cup ({Item(p).mid} \ {""}),
                         !.qs = Tail(proc[p].qs),
                         !.pc = AfterItem(p, proc[p].count + 1)]]
    /\ imports' = [imports EXCEPT ![Item(p)] = imports[Item(p)] + 1]
    /\ UNCHANGED botVars
    /\ UNCHANGED <<now, ticks, source, gmailPre, stateFile, seenFile,
                   dupFile, fileGen, passes, hist, cfg, import_last_days>>

\* DryRunItem, but with the identifier of the candidate put into the seen
\* set
DryRunItem_Marked(p) ==
    /\ proc[p].pc = "loop"
    /\ ~SeenSkip(proc[p].ignore_seen, Item(p).mid, proc[p].seen)
    /\ proc[p].dry_run
    /\ \E err \in BOOLEAN :
         /\ ~Verdict(p, err).dup
         /\ err => Verdict(p, err).queried
         /\ proc' = [proc EXCEPT ![p] =
              [proc[p] EXCEPT !.duplicates_db = Verdict(p, err).db,
                              !.seen = SeenAfterImport(proc[p].seen, Item(p).mid),
                              !.count = proc[p].count + 1,
                              !.newest = Advance(proc[p].newest, Item(p).dt),
                              !.ev = Event(p, "dry", Verdict(p, err).queried, err),
                              !.done = Done(p, "dry"),
                              !.qs = Tail(proc[p].qs),
                              !.pc = AfterItem(p, proc[p].count + 1)]]
    /\ UNCHANGED botVars
    /\ UNCHANGED <<now, ticks, source, gmailPre, imports, stateFile, seenFile,
                   dupFile, fileGen, passes, hist, cfg, import_last_days>>

\* lines 507-526 with dry_run: counted, not imported
DryRunItem(p) ==
    /\ proc[p].pc = "loop"
    /\ ~SeenSkip(proc[p].ignore_seen, Item(p).mid, proc[p].seen)
    /\ proc[p].dry_run
    /\ \E err \in BOOLEAN :
         /\ ~Verdict(p, err).dup
         /\ err => Verdict(p, err).queried
         /\ proc' = [proc EXCEPT ![p] =
              [proc[p] EXCEPT !.duplicates_db = Verdict(p, err).db,
                              !.count = proc[p].count + 1,
                              !.newest = Advance(proc[p].newest, Item(p).dt),
                              !.ev = Event(p, "dry", Verdict(p, err).queried, err),
                              !.done = Done(p, "dry"),
                              !.qs = Tail(proc[p].qs),
                              !.pc = AfterItem(p, proc[p].count + 1)]]
    /\ UNCHANGED botVars
    /\ UNCHANGED <<now, ticks, source, gmailPre, imports, stateFile, seenFile,
                   dupFile, fileGen, passes, hist, cfg, import_last_days>>

\* main.py line 122: the test pass's budget after the inbox
Remaining(remaining, imported) ==
    IF remaining - imported > 0 THEN remaining - imported ELSE 0

\* lines 528-542 of the first folder; the pass goes on to the second folder
\* (main.py lines 169-181, 245-262; the test pass only while its budget
\* lasts, lines 122-141)
FinalizeFirst(p) ==
    /\ proc[p].pc = "finalize"
    /\ proc[p].state_key \in {"inbox", "inbox_deep"}
    /\ LET r == proc[p]
           left == Remaining(r.remaining, r.count)
       IN  /\ r.mode = "test" => left > 0
           /\ proc' = [proc EXCEPT ![p] =
                [r EXCEPT !.state = FinalState(r.state, r.state_key, r.newest,
                                               r.ignore_state, r.dry_run, now),
                          !.qs = <<>>,
                          !.state_key = IF r.mode = "deep" THEN "sent_deep" ELSE "sent",
                          !.remaining = IF r.mode = "test" THEN left ELSE 0,
                          !.limit = IF r.mode = "test" THEN left ELSE 0,
                          !.pc = "list"]]
    /\ UNCHANGED botVars
    /\ UNCHANGED <<now, ticks, source, gmailPre, imports, stateFile, seenFile,
                   dupFile, fileGen, passes, hist, cfg, import_last_days>>

\* lines 528-542 of the last folder of a fast or deep pass; the pass goes
\* on to save (main.py lines 186, 266)
FinalizeLast(p) ==
    /\ proc[p].pc = "finalize"
    /\ proc[p].state_key \in {"sent", "sent_deep"}
    /\ proc[p].mode \in {"fast", "deep"}
    /\ LET r == proc[p] IN
       proc' = [proc EXCEPT ![p] =
          [r EXCEPT !.state = FinalState(r.state, r.state_key, r.newest,
                                         r.ignore_state, r.dry_run, now),
                    !.qs = <<>>,
                    !.pc = "save_state"]]
    /\ UNCHANGED botVars
    /\ UNCHANGED <<now, ticks, source, gmailPre, imports, stateFile, seenFile,
                   dupFile, fileGen, passes, hist, cfg, import_last_days>>

\* lines 528-542 of the last folder of a test pass (the inbox when the
\* budget is used up); main.py lines 144-148: the pass returns, no save
FinalizeTest(p) ==
    /\ proc[p].pc = "finalize"
    /\ proc[p].mode = "test"
    /\ \/ proc[p].state_key = "sent"
       \/ Remaining(proc[p].remaining, proc[p].count) = 0
    /\ Finish(p, FALSE, "ok")
    /\ UNCHANGED botVars
    /\ UNCHANGED <<now, ticks, source, gmailPre, imports, stateFile, seenFile,
                   dupFile, fileGen, passes, cfg>>

\* ------------------------------------------------------------------------
\* _save_runtime_state (src/main.py): three files written one after another
\* ------------------------------------------------------------------------

\* lines 74-75
SaveState(p) ==
    /\ proc[p].pc = "save_state"
    /\ stateFile' = Some(proc[p].state)
    /\ fileGen' = [fileGen EXCEPT !["state"] = proc[p].id]
    /\ proc' = [proc EXCEPT ![p].pc = "save_seen"]
    /\ hist' = [hist EXCEPT !.before = stateFile]
    /\ UNCHANGED botVars
    /\ UNCHANGED <<now, ticks, source, gmailPre, imports, seenFile, dupFile,
                   passes, cfg, import_last_days>>

\* lines 76-77
SaveSeen(p) ==
    /\ proc[p].pc = "save_seen"
    /\ seenFile' = Some(proc[p].seen)
    /\ fileGen' = [fileGen EXCEPT !["seen"] = proc[p].id]
    /\ proc' = [proc EXCEPT ![p].pc = "save_dups"]
    /\ UNCHANGED botVars
    /\ UNCHANGED <<now, ticks, source, gmailPre, imports, stateFile, dupFile,
                   passes, hist, cfg, import_last_days>>

\* lines 78-79, then lines 188-194 (267-276): statistics, sweep of the
\* in-memory cache, return
SaveDups(p) ==
    /\ proc[p].pc = "save_dups"
    /\ dupFile' = Some(proc[p].duplicates_db)
    /\ fileGen' = [fileGen EXCEPT !["dups"] = proc[p].id]
    /\ Finish(p, TRUE, "ok")
    /\ UNCHANGED botVars
    /\ UNCHANGED <<now, ticks, source, gmailPre, imports, stateFile, seenFile,
                   passes, cfg>>

\* a write of _save_runtime_state raises (open or json.dump): the files
\* written before stay written, the others keep their old content; caught
\* at line 191 (269)
SaveFail(p) ==
    /\ proc[p].pc \in {"save_state", "save_seen", "save_dups"}
    /\ Finish(p, FALSE, "ok")
    /\ UNCHANGED botVars
    /\ UNCHANGED <<now, ticks, source, gmailPre, imports, stateFile, seenFile,
                   dupFile, fileGen, passes, cfg>>

\* ------------------------------------------------------------------------
\* Specification: the shipped settings, the /tasks/sync trigger runs one
\* fast pass after another; every remote call and every write may fail
\* ------------------------------------------------------------------------

Next ==
    \/ \E d \in TickSteps : Tick(d)
    \/ \E m \in Universe : Arrive(m)
    \/ Start(1, "sync")
    \/ Connect(1)
    \/ ConnectFail(1)
    \/ ListFolder(1)
    \/ ListFail(1)
    \/ SkipSeen(1)
    \/ SkipDuplicate(1)
    \/ ImportOk(1)
    \/ ImportFail(1)
    \/ FinalizeFirst(1)
    \/ FinalizeLast(1)
    \/ SaveState(1)
    \/ SaveSeen(1)
    \/ SaveDups(1)
    \/ SaveFail(1)

Spec == Init /\ [][Next]_vars

\* ------------------------------------------------------------------------
\* Specification: fast passes in which a connection or the listing of a
\* folder may fail; import_raw and the three writes succeed
\* ------------------------------------------------------------------------

NextAbort ==
    \/ \E d \in TickSteps : Tick(d)
    \/ \E m \in Universe : Arrive(m)
    \/ Start(1, "sync")
    \/ Connect(1)
    \/ ConnectFail(1)
    \/ ListFolder(1)
    \/ ListFail(1)
    \/ SkipSeen(1)
    \/ SkipDuplicate(1)
    \/ ImportOk(1)
    \/ FinalizeFirst(1)
    \/ FinalizeLast(1)
    \/ SaveState(1)
    \/ SaveSeen(1)
    \/ SaveDups(1)

SpecAbort == Init /\ [][NextAbort]_vars

\* ------------------------------------------------------------------------
\* Specification: fast passes that run to their end, all within a time too
\* short for the clock to matter; the duplicate query and import_raw may
\* fail for any candidate
\* ------------------------------------------------------------------------

NextImport ==
    \/ \E m \in Universe : Arrive(m)
    \/ Start(1, "sync")
    \/ Connect(1)
    \/ ListFolder(1)
    \/ SkipSeen(1)
    \/ SkipDuplicate(1)
    \/ ImportOk(1)
    \/ ImportFail(1)
    \/ FinalizeFirst(1)
    \/ FinalizeLast(1)
    \/ SaveState(1)
    \/ SaveSeen(1)
    \/ SaveDups(1)

SpecImport == Init /\ [][NextImport]_vars

\* ------------------------------------------------------------------------
\* Specification: a deployment with TEST_LIMIT set (and either value of
\* TEST_DRY_RUN): /tasks/sync runs test passes, /tasks/sync_deep deep passes,
\* all within a time too short for the clock to matter; the passes run to
\* their end, the duplicate query and import_raw may fail for any candidate
\* ------------------------------------------------------------------------

TestCfgs == {[TEST_LIMIT |-> Some(n), TEST_DRY_RUN |-> d, deep_days |-> NONE] :
                n \in {2}, d \in BOOLEAN}

InitTest == \E c \in TestCfgs : InitWith(c)

\* the messages that arrive: with the clock standing still and the watermark
\* ignored, a message dated in the future is listed like any other
TestMsgs == {m \in Universe : m.dt <= 400}

NextTest ==
    \/ \E m \in TestMsgs : Arrive(m)
    \/ \E t \in {"sync", "sync_deep"} : Start(1, t)
    \/ Connect(1)
    \/ ListFolder(1)
    \/ SkipSeen(1)
    \/ SkipDuplicate(1)
    \/ ImportOk(1)
    \/ ImportFail(1)
    \/ DryRunItem(1)
    \/ FinalizeFirst(1)
    \/ FinalizeLast(1)
    \/ FinalizeTest(1)
    \/ SaveState(1)
    \/ SaveSeen(1)
    \/ SaveDups(1)

SpecTest == InitTest /\ [][NextTest]_vars

\* ------------------------------------------------------------------------
\* Specification: the same deployment with TEST_LIMIT = 1, so that a folder
\* holds more candidates than the limit
\* ------------------------------------------------------------------------

LimitCfgs == {[TEST_LIMIT |-> Some(n), TEST_DRY_RUN |-> d, deep_days |-> NONE] :
                 n \in {1}, d \in BOOLEAN}

InitLimit == \E c \in LimitCfgs : InitWith(c)

SpecLimit == InitLimit /\ [][NextTest]_vars

\* ------------------------------------------------------------------------
\* Specification: the service has run before and was idle for about a
\* month: duplicates.json holds records that were detected 29, 30 or 31 days
\* ago, for messages older than that; one message arrives and fast and deep
\* passes run, every remote call and every write succeeding except the duplicate
\* query
\* ------------------------------------------------------------------------

SweepAges == {29, 30, 31}

\* the timestamp of the messages the stored records are about
SweepDt == 400 - 32 * MinutesPerDay

StoredRecords ==
    [message_id : {"a", "b"}, date : {to_utc_iso(SweepDt)},
     detected_at : {TimeTime(400) - d * 24 * 3600 : d \in SweepAges}]

\* a duplicates_db holds one record per Message-ID
StoredDbs == {db \in SUBSET StoredRecords :
                 \A x, y \in db : x.message_id = y.message_id => x = y}

InitSweep ==
    \E db \in StoredDbs :
       InitFiles(DefaultCfg,
                 Some(Put(DefaultState, "inbox_dt", Some(to_utc_iso(SweepDt)))),
                 Some({}), Some(db))

\* the one message that arrives meanwhile
SweepMsgs == {[folder |-> "inbox", mid |-> "a", dt |-> 400]}

NextSweep ==
    \/ \E d \in TickSteps : Tick(d)
    \/ \E m \in SweepMsgs : Arrive(m)
    \/ \E t \in {"sync", "sync_deep"} : Start(1, t)
    \/ Connect(1)
    \/ ListFolder(1)
    \/ SkipSeen(1)
    \/ SkipDuplicate(1)
    \/ ImportOk(1)
    \/ FinalizeFirst(1)
    \/ FinalizeLast(1)
    \/ SaveState(1)
    \/ SaveSeen(1)
    \/ SaveDups(1)

SpecSweep == InitSweep /\ [][NextSweep]_vars

\* ------------------------------------------------------------------------
\* Specification: the service starts with a state.json that earlier passes
\* wrote, perhaps under a wall clock that was ahead of the present one: each
\* folder's watermark is absent, earlier than now, equal to now or later
\* than now (the sent folder, which stays empty, has one earlier value
\* less).  Fast and deep passes run, every remote call and every write
\* succeeding except the duplicate query.
\* ------------------------------------------------------------------------

StoredWatermarks == {NONE, Some(to_utc_iso(220)), Some(to_utc_iso(400)),
                     Some(to_utc_iso(5000))}

\* the state dict with the watermarks wi and ws (NONE: key absent)
StateWith(wi, ws) ==
    LET s1 == IF wi = NONE THEN DefaultState ELSE Put(DefaultState, "inbox_dt", wi)
    IN  IF ws = NONE THEN s1 ELSE Put(s1, "sent_dt", ws)

InitStored ==
    \E wi \in StoredWatermarks, ws \in StoredWatermarks \ {Some(to_utc_iso(220))} :
       InitFiles(DefaultCfg, Some(StateWith(wi, ws)), Some({}), Some({}))

\* the messages that arrive
StoredMsgs == {[folder |-> "inbox", mid |-> "a", dt |-> 220],
               [folder |-> "inbox", mid |-> "", dt |-> 400],
               [folder |-> "inbox", mid |-> "a", dt |-> 5000]}

NextStored ==
    \/ \E d \in TickSteps : Tick(d)
    \/ \E m \in StoredMsgs : Arrive(m)
    \/ \E t \in {"sync", "sync_deep"} : Start(1, t)
    \/ Connect(1)
    \/ ListFolder(1)
    \/ SkipSeen(1)
    \/ SkipDuplicate(1)
    \/ ImportOk(1)
    \/ FinalizeFirst(1)
    \/ FinalizeLast(1)
    \/ SaveState(1)
    \/ SaveSeen(1)
    \/ SaveDups(1)

SpecStored == InitStored /\ [][NextStored]_vars

\* ------------------------------------------------------------------------
\* Specification: the shipped settings, fast passes (/tasks/sync) and deep
\* passes (/tasks/sync_deep) one after another, every remote call and every
\* write succeeding except the duplicate query
\* ------------------------------------------------------------------------

NextDeep ==
    \/ \E d \in TickSteps : Tick(d)
    \/ \E m \in Universe : Arrive(m)
    \/ \E t \in {"sync", "sync_deep"} : Start(1, t)
    \/ Connect(1)
    \/ ListFolder(1)
    \/ SkipSeen(1)
    \/ SkipDuplicate(1)
    \/ ImportOk(1)
    \/ FinalizeFirst(1)
    \/ FinalizeLast(1)
    \/ SaveState(1)
    \/ SaveSeen(1)
    \/ SaveDups(1)

SpecDeep == Init /\ [][NextDeep]_vars

\* ------------------------------------------------------------------------
\* Specification: two requests to /tasks/sync served at the same time, each
\* running a fast pass over the same three files and the same mailboxes;
\* their steps interleave in any order, a pass may start while the other is
\* anywhere in its own, and messages arrive at any time.  Every remote call
\* and every write succeeds.
\* ------------------------------------------------------------------------

OverlapMsgs == {[folder |-> "inbox", mid |-> "a", dt |-> 400],
                [folder |-> "inbox", mid |-> "", dt |-> 400]}

NextOverlap ==
    \/ \E m \in OverlapMsgs : Arrive(m)
    \/ \E m \in OverlapMsgs : ArriveLate(m)
    \/ \E p \in Procs :
          \/ Start(p, "sync")
          \/ Connect(p)
          \/ ListFolder(p)
          \/ SkipSeen(p)
          \/ SkipDuplicate(p)
          \/ CheckDuplicate(p, FALSE)
          \/ ImportChecked(p)
          \/ FinalizeFirst(p)
          \/ FinalizeLast(p)
          \/ SaveState(p)
          \/ SaveSeen(p)
          \/ SaveDups(p)

SpecOverlap == Init /\ [][NextOverlap]_vars

\* ------------------------------------------------------------------------
\* Specification: the deployment with TEST_LIMIT set to 0, 1 or 2, as
\* SpecTest otherwise
\* ------------------------------------------------------------------------

CeilingCfgs == {[TEST_LIMIT |-> Some(n), TEST_DRY_RUN |-> d, deep_days |-> NONE] :
                   n \in {0, 1, 2}, d \in BOOLEAN}

InitCeiling == \E c \in CeilingCfgs : InitWith(c)

SpecCeiling == InitCeiling /\ [][NextTest]_vars

\* ------------------------------------------------------------------------
\* Specification: DEEP_IMPORT_LAST_DAYS is set; requests to /tasks/sync and
\* /tasks/sync_deep are served at the same time by one process, so that the
\* passes share the module global sync.IMPORT_LAST_DAYS and their steps
\* interleave in any order.  Every remote call and every write succeeds.
\* ------------------------------------------------------------------------

\* the value of DEEP_IMPORT_LAST_DAYS
DeepDays == 3

DeepCfg == [TEST_LIMIT |-> NONE, TEST_DRY_RUN |-> FALSE, deep_days |-> Some(DeepDays)]

InitWindow == InitWith(DeepCfg)

WindowMsgs == {[folder |-> "inbox", mid |-> "a", dt |-> 400]}

NextWindow ==
    \/ \E m \in WindowMsgs : Arrive(m)
    \/ \E p \in Procs :
          \/ \E t \in {"sync", "sync_deep"} : Start(p, t)
          \/ Connect(p)
          \/ ListFolder(p)
          \/ SkipSeen(p)
          \/ SkipDuplicate(p)
          \/ ImportOk(p)
          \/ FinalizeFirst(p)
          \/ FinalizeLast(p)
          \/ SaveState(p)
          \/ SaveSeen(p)
          \/ SaveDups(p)

SpecWindow == InitWindow /\ [][NextWindow]_vars

\* ------------------------------------------------------------------------
\* Specification: fast and deep passes, one after another, all within a time
\* too short for the clock to matter; a pass may fail while it fetches
\* candidates, also after it has imported some, or while it writes the
\* files, and then saves nothing or not everything; the duplicate query may
\* fail for any candidate
\* ------------------------------------------------------------------------

RetryMsgs == {[folder |-> "inbox", mid |-> "a", dt |-> 220],
              [folder |-> "inbox", mid |-> "a", dt |-> 400],
              [folder |-> "sent", mid |-> "a", dt |-> 400]}

NextRetry ==
    \/ \E m \in RetryMsgs : Arrive(m)
    \/ \E t \in {"sync", "sync_deep"} : Start(1, t)
    \/ Connect(1)
    \/ ListFolder(1)
    \/ ListFail(1)
    \/ SkipSeen(1)
    \/ SkipDuplicate(1)
    \/ ImportOk(1)
    \/ FinalizeFirst(1)
    \/ FinalizeLast(1)
    \/ SaveState(1)
    \/ SaveSeen(1)
    \/ SaveDups(1)
    \/ SaveFail(1)

SpecRetry == Init /\ [][NextRetry]_vars

\* ------------------------------------------------------------------------
\* Specifications of the checklist bot
\* ------------------------------------------------------------------------

\* the bot on its own: commands and button presses
NextToggle ==
    \/ WebhookMessage
    \/ WebhookCallback

SpecToggle == Init /\ [][NextToggle]_vars

\* the bot on its own: the cron endpoint, the /now command, the clock
NextDaily ==
    \/ BotTick
    \/ WebhookMessage
    \/ DailyChecklist

SpecDaily == Init /\ [][NextDaily]_vars

\* ------------------------------------------------------------------------
\* Properties
\* ------------------------------------------------------------------------

SavePcs == {"save_state", "save_seen", "save_dups"}

\* the watermark a state file holds for a key, as an instant
StoredWatermark(f, k) ==
    IF f = NONE THEN NONE
    ELSE IF Get(f[1], k) = NONE THEN NONE
    ELSE Some(from_utc_iso(Get(f[1], k)[1]))

\* C1: a fast pass that directly follows a fast pass that completed and
\* saved (with no import error in it and no message arrived since) calls
\* import_raw for no message.
C1_Idempotent ==
    \A p \in Procs : proc[p].follows => proc[p].calls = 0

\* C2 as stated: whenever a fast pass writes state.json, each folder's
\* stored watermark is at least what it was before, and it is not later
\* than the wall clock.
C2_MonotonicWatermark ==
    [][\A p \in Procs :
          (proc[p].mode = "fast" /\ proc[p].pc = "save_state"
             /\ proc'[p].pc = "save_seen") =>
          \A k \in {"inbox_dt", "sent_dt"} :
             LET old == StoredWatermark(stateFile, k)
                 new == StoredWatermark(stateFile', k)
             IN  /\ old # NONE => (new # NONE /\ new[1] >= old[1])
                 /\ new # NONE => new[1] <= now']_vars

\* C2 amended: whenever a fast pass writes state.json, each folder's stored
\* watermark is not later than the wall clock, and it is at least what it
\* was before unless that was later than the wall clock when the pass
\* listed the folder: then it is at least that wall-clock time minus one
\* minute.
C2_MonotonicUnlessClamped ==
    [][\A p \in Procs :
          (proc[p].mode = "fast" /\ proc[p].pc = "save_state"
             /\ proc'[p].pc = "save_seen") =>
          \A f \in Folders :
             LET old == StoredWatermark(stateFile, DtKey(f))
                 new == StoredWatermark(stateFile', DtKey(f))
                 t == proc[p].at[f].t
             IN  /\ old # NONE =>
                       /\ new # NONE
                       /\ IF old[1] > t THEN new[1] >= t - 1
                                         ELSE new[1] >= old[1]
                 /\ new # NONE => new[1] <= now']_vars

\* a fast pass that found the inbox watermark later than the wall clock has
\* just written state.json, with an earlier inbox watermark, one minute
\* before the time it listed the folder at
C2_Witness ==
    \E p \in Procs :
       LET old == StoredWatermark(hist.before, "inbox_dt")
           new == StoredWatermark(stateFile, "inbox_dt")
       IN  /\ proc[p].mode = "fast" /\ proc[p].pc = "save_seen"
           /\ old # NONE /\ new # NONE
           /\ old[1] > proc[p].at["inbox"].t
           /\ new[1] = proc[p].at["inbox"].t - 1

\* C3: a candidate whose import raised in a fast pass that went on to save
\* is listed again by the next fast pass as long as it is inside the age
\* window.
C3_NoSilentLoss ==
    \A p \in Procs :
       (proc[p].mode = "fast" /\ proc[p].pc \in {"loop", "finalize"}) =>
          \A m \in proc[p].prevFailed :
             (/\ m \in source
              /\ m.folder = FolderOf(proc[p].state_key)
              /\ m.dt > proc[p].tnow - IMPORT_LAST_DAYS * MinutesPerDay)
             => m \in proc[p].listed

\* C4: whenever no pass is in the middle of its save, the three files were
\* last written by the same pass (or none of them was ever written).
C4_AtomicPersistence ==
    (\A p \in Procs : proc[p].pc \notin SavePcs) =>
        /\ fileGen["state"] = fileGen["seen"]
        /\ fileGen["seen"] = fileGen["dups"]

\* C5: when a pass ends because a connection failed or an exception left a
\* folder pass, the three files hold what they held when the pass started.
C5_FailedPassWritesNothing ==
    [][\A p \in Procs :
          (proc[p].pc \in {"connect", "list", "loop"} /\ proc'[p].pc = "idle")
          => <<stateFile', seenFile', dupFile'>> = proc[p].files0]_vars

\* a pass failed after a committed pass, having imported an identified
\* message that the committed seen set does not hold
C5_Witness ==
    /\ hist.failedAt \in {"list", "loop"}
    /\ ~hist.saved
    /\ proc[1].pc = "idle"
    /\ fileGen["seen"] = 1
    /\ \E m \in Universe :
          imports[m] > 0 /\ m.mid # "" /\ m.mid \notin LoadSeen(seenFile)

Max(a, b) == IF a > b THEN a ELSE b

Examined(e) == e.kind \in {"dup", "imported", "import_failed", "dry"}

\* C7: when is_duplicate_email is called for a candidate whose identifier
\* is in the seen set, it says duplicate, issues no remote query and leaves
\* the duplicate cache as it was.
C7_SeenIsDuplicateWithoutQuery ==
    \A p \in Procs :
       LET e == proc[p].ev IN
       (Examined(e) /\ e.item.mid # "" /\ e.item.mid \in e.seen0) =>
          /\ e.kind = "dup"
          /\ ~e.queried
          /\ proc[p].duplicates_db = e.db0

\* a candidate was found duplicate by the seen set alone, although Gmail
\* holds its identifier too
C7_Witness ==
    \E p \in Procs :
       /\ proc[p].ev.kind = "dup"
       /\ proc[p].ev.item.mid \in proc[p].ev.seen0
       /\ proc[p].ev.found

\* C8: a candidate without identifier is neither skipped as seen nor found
\* duplicate, no remote query is issued for it, and outside a dry run
\* import_raw is called for it.
C8_NoIdentifierFailsOpen ==
    \A p \in Procs :
       LET e == proc[p].ev IN
       (e.kind # "none" /\ e.item.mid = "") =>
          /\ e.kind \notin {"seen", "dup"}
          /\ ~e.queried
          /\ ~proc[p].dry_run =>
                (/\ e.kind \in {"imported", "import_failed"}
                 /\ proc[p].calls = e.calls0 + 1)

\* a candidate without identifier was imported by a pass that held a
\* non-empty seen set or duplicate cache
C8_Witness ==
    \E p \in Procs :
       /\ proc[p].ev.kind = "imported"
       /\ proc[p].ev.item.mid = ""
       /\ ~proc[p].ignore_seen
       /\ proc[p].ev.seen0 # {}
       /\ proc[p].ev.db0 # {}

\* C9: when the remote query for a candidate raises, the candidate is not
\* found duplicate, no record is created, the pass goes on and import_raw
\* is called for the candidate.
C9_QueryErrorFailsOpen ==
    \A p \in Procs :
       LET e == proc[p].ev IN
       (e.kind # "none" /\ e.queried /\ e.qerr) =>
          /\ e.kind \in {"imported", "import_failed", "dry"}
          /\ proc[p].duplicates_db = e.db0
          /\ proc[p].duplicates_skipped = e.dups0
          /\ proc[p].pc # "idle"
          /\ ~proc[p].dry_run => proc[p].calls = e.calls0 + 1

\* the query raised for a candidate that Gmail holds, and the candidate
\* was imported
C9_Witness ==
    \E p \in Procs :
       /\ proc[p].ev.kind = "imported"
       /\ proc[p].ev.queried
       /\ proc[p].ev.qerr
       /\ proc[p].ev.found

\* C10: a candidate whose identifier is not in the seen set and that the
\* remote query finds is not handed to import_raw, duplicates_skipped grows
\* by one, the imported count stays, and the duplicate cache holds a record
\* under the identifier.
C10_RemoteMatchSkipped ==
    \A p \in Procs :
       LET e == proc[p].ev IN
       (e.kind # "none" /\ e.item.mid # "" /\ e.item.mid \notin e.seen0
          /\ e.found /\ ~e.qerr) =>
          /\ e.kind = "dup"
          /\ proc[p].calls = e.calls0
          /\ proc[p].duplicates_skipped = e.dups0 + 1
          /\ proc[p].count = e.count0
          /\ e.item.mid \in DbKeys(proc[p].duplicates_db)

\* a candidate was skipped on the remote match and its record is new
C10_Witness ==
    \E p \in Procs :
       /\ proc[p].ev.kind = "dup"
       /\ proc[p].ev.found
       /\ proc[p].ev.queried
       /\ proc[p].ev.item.mid \notin proc[p].ev.seen0
       /\ proc[p].ev.item.mid \notin DbKeys(proc[p].ev.db0)

\* the candidates of a record of examined candidates, in order
DoneItems(d) == [i \in 1..Len(d) |-> d[i].item]

\* how many of them were counted as imported
Counted(d) == Cardinality({i \in 1..Len(d) : d[i].kind \in {"imported", "dry"}})

\* how many of the messages S would be imported by a pass that holds the
\* seen set and finds the Gmail content given: those without identifier,
\* and one per identifier that neither holds
Fresh(S, seen, gmail) ==
    Cardinality({m \in S : m.mid = ""})
    + Cardinality({m.mid : m \in S} \ ({""} \cup seen \cup gmail))

Min(a, b) == IF a < b THEN a ELSE b

\* C11 as stated: a folder pass with limit L > 0 (not a dry run, no import
\* of it raised) ends with
\* imported = min(L, number of candidates of the window that are neither
\* seen nor duplicate and whose import succeeds); it examines no candidate
\* after the L-th import; newest moves no further than the timestamp of the
\* last candidate examined.
C11_ItemLimit ==
    \A p \in Procs :
       LET r == proc[p]
           rest == {r.window[i] : i \in 1..Len(r.window)}
                      \ {r.done[i].item : i \in 1..Len(r.done)}
       IN  (r.limit > 0 /\ r.pc \in {"loop", "finalize"}) =>
              /\ r.pc = "loop" => r.count < r.limit
              /\ (/\ r.pc = "finalize" /\ ~r.dry_run
                  /\ \A i \in 1..Len(r.done) : r.done[i].kind # "import_failed") =>
                    r.count = Min(r.limit,
                                  Counted(r.done)
                                  + Fresh(rest, r.seen, GmailIds(gmailPre, imports)))
              /\ (r.newest # NONE /\ r.newest # r.last_dt) =>
                    (/\ r.done # <<>>
                     /\ r.newest[1] <= r.done[Len(r.done)].item.dt)

\* C11 amended: a folder pass with limit L > 0 examines the first L
\* candidates of the ascending window and no other (a candidate skipped as
\* seen or duplicate uses up the limit like any other); imported is the
\* number of them that were neither skipped nor failed to import, at most L;
\* newest moves no further than the timestamp of the last candidate
\* examined.
C11_LimitedListing ==
    \A p \in Procs :
       LET r == proc[p] IN
       (r.limit > 0 /\ r.pc \in {"loop", "finalize"}) =>
          /\ DoneItems(r.done) \o r.qs = SubSeq(r.window, 1, Min(r.limit, Len(r.window)))
          /\ r.pc = "loop" => r.count < r.limit
          /\ r.pc = "finalize" => r.qs = <<>>
          /\ r.count = Counted(r.done)
          /\ r.count <= r.limit
          /\ (r.newest # NONE /\ r.newest # r.last_dt) =>
                (/\ r.done # <<>>
                 /\ r.newest[1] <= r.done[Len(r.done)].item.dt)

\* a limited pass ended after a duplicate had used up its limit, with a
\* candidate that it would have imported left unexamined
C11_Witness ==
    \E p \in Procs :
       /\ proc[p].pc = "finalize"
       /\ proc[p].limit > 0
       /\ ~proc[p].dry_run
       /\ Len(proc[p].window) > proc[p].limit
       /\ proc[p].done # <<>>
       /\ proc[p].done[1].kind = "dup"
       /\ proc[p].count = 0
       /\ \E i \in 1..Len(proc[p].window) : proc[p].window[i].mid = ""

\* C12: in a folder pass that does not ignore the seen set, a candidate
\* whose identifier is in the seen set is skipped as seen: import_raw is not
\* called, neither the imported count nor the duplicate count grows, no
\* remote query is issued, the seen set and the duplicate cache stay, and
\* the running newest value is at least the candidate's timestamp.
C12_SeenSkipped ==
    \A p \in Procs :
       LET e == proc[p].ev IN
       (/\ e.kind # "none" /\ ~proc[p].ignore_seen
        /\ e.item.mid # "" /\ e.item.mid \in e.seen0) =>
          /\ e.kind = "seen"
          /\ proc[p].calls = e.calls0
          /\ proc[p].count = e.count0
          /\ proc[p].duplicates_skipped = e.dups0
          /\ ~e.queried
          /\ proc[p].seen = e.seen0
          /\ proc[p].duplicates_db = e.db0
          /\ proc[p].newest # NONE
          /\ proc[p].newest[1] >= e.item.dt

\* a deep pass listed a message that lies before the fast pass's threshold
\* and skipped it as seen, which moved its newest value up
C12_Witness ==
    \E p \in Procs :
       /\ proc[p].mode = "deep"
       /\ proc[p].ev.kind = "seen"
       /\ StoredWatermark(stateFile, "inbox_dt") # NONE
       /\ proc[p].ev.item.folder = "inbox"
       /\ proc[p].ev.item.dt <=
             StoredWatermark(stateFile, "inbox_dt")[1] - SYNC_GRACE_MINUTES
       /\ proc[p].newest = Some(proc[p].ev.item.dt)

\* C13: the sweep at the start of a fast pass keeps exactly the records
\* whose detected_at is not strictly earlier than now minus 30 days, each
\* as it was, and returns the number of records it removed.
C13_CacheExpiry ==
    [][\A p \in Procs :
          (proc[p].pc = "connect" /\ proc[p].mode = "fast"
             /\ proc'[p].pc = "list") =>
          LET before == proc[p].duplicates_db
              stale == {r \in before :
                          r.detected_at < 60 * now - 30 * 86400}
          IN  /\ proc'[p].duplicates_db = before \ stale
              /\ proc'[p].removed = Cardinality(stale)]_vars

\* a sweep removed the record detected 31 days ago and kept the one
\* detected 29 days ago
C13_Witness ==
    \E p \in Procs :
       /\ proc[p].pc = "list" /\ proc[p].state_key = "inbox"
       /\ proc[p].mode = "fast"
       /\ proc[p].removed = 1
       /\ \E r \in LoadDups(proc[p].files0[3]) :
             /\ r.detected_at = 60 * now - 31 * 86400
             /\ r \notin proc[p].duplicates_db
       /\ \E r \in proc[p].duplicates_db :
             r.detected_at = 60 * now - 29 * 86400

\* C14 as stated: a folder pass whose listing is empty ends with imported
\* = 0 and duplicates_skipped = 0 and leaves the folder's watermark, the
\* seen set and the duplicate cache as they were when it began, whatever
\* the watermark was.
C14_EmptySource ==
    [][\A p \in Procs :
          (proc[p].pc = "finalize" /\ proc[p].window = <<>>
             /\ proc'[p].pc \in {"list", "save_state"}) =>
          LET r == proc[p]
              began == r.at[FolderOf(r.state_key)]
              k == DtKey(r.state_key)
          IN  /\ r.count = 0
              /\ r.duplicates_skipped = 0
              /\ Get(proc'[p].state, k) = Get(began.state, k)
              /\ proc'[p].seen = began.seen
              /\ proc'[p].duplicates_db = began.duplicates_db]_vars

\* C14 amended: the same, except that a watermark which the pass respects
\* and which is later than the wall clock at the listing is replaced by
\* that wall-clock time minus one minute.
C14_EmptySourceClamped ==
    [][\A p \in Procs :
          (proc[p].pc = "finalize" /\ proc[p].window = <<>>
             /\ proc'[p].pc \in {"list", "save_state"}) =>
          LET r == proc[p]
              began == r.at[FolderOf(r.state_key)]
              k == DtKey(r.state_key)
              old == Get(began.state, k)
          IN  /\ r.count = 0
              /\ r.duplicates_skipped = 0
              /\ Get(proc'[p].state, k) =
                    IF ~r.ignore_state /\ old # NONE
                       /\ from_utc_iso(old[1]) > began.t
                    THEN Some(to_utc_iso(began.t - 1))
                    ELSE old
              /\ proc'[p].seen = began.seen
              /\ proc'[p].duplicates_db = began.duplicates_db]_vars

\* a fast pass found the inbox empty: its watermark, stored later than the
\* wall clock, was replaced, while the seen set stayed
C14_Witness ==
    \E p \in Procs :
       /\ proc[p].mode = "fast"
       /\ proc[p].pc = "list" /\ proc[p].state_key = "sent"
       /\ proc[p].window = <<>>
       /\ Get(proc[p].at["inbox"].state, "inbox_dt") = Some(to_utc_iso(5000))
       /\ Get(proc[p].state, "inbox_dt") = Some(to_utc_iso(proc[p].at["inbox"].t - 1))
       /\ Get(proc[p].state, "sent_dt") = Some(to_utc_iso(400))

\* C15: when import_raw raises for a candidate, the folder pass is not
\* aborted: the imported count and the seen set stay as they were, nothing
\* is handed to Gmail, the candidate is taken off the sequence and is not
\* examined again in this pass, and the loop goes on with the next
\* candidate when there is one; the candidates examined so far and the ones
\* still to come are always the listed ones, each once, in order.
C15_ImportFailureContinues ==
    [][\A p \in Procs :
          LET r == proc[p]
              n == proc'[p]
          IN  /\ (/\ r.pc = "loop"
                  /\ Len(n.done) = Len(r.done) + 1
                  /\ n.done[Len(n.done)].kind = "import_failed") =>
                    /\ n.count = r.count
                    /\ n.seen = r.seen
                    /\ imports' = imports
                    /\ n.done[Len(n.done)].item = r.qs[1]
                    /\ n.qs = Tail(r.qs)
                    /\ n.pc = IF n.qs = <<>> THEN "finalize" ELSE "loop"
                    /\ n.state = r.state
              /\ (n.pc \in {"loop", "finalize"} /\ n.limit = 0) =>
                    /\ DoneItems(n.done) \o n.qs = n.window
                    /\ n.pc = "finalize" => n.qs = <<>>
                    /\ \A i, j \in 1..Len(n.window) :
                          n.window[i] = n.window[j] => i = j]_vars

\* a fast pass went past its loop after import_raw had raised for the first
\* of two candidates and returned for the second, which carries an
\* identifier
C15_Witness ==
    \E p \in Procs :
       /\ proc[p].pc = "finalize"
       /\ Len(proc[p].done) = 2
       /\ proc[p].done[1].kind = "import_failed"
       /\ proc[p].done[1].item.mid # ""
       /\ proc[p].done[2].kind = "imported"
       /\ proc[p].count = 1
       /\ proc[p].done[1].item.mid \notin proc[p].seen
       /\ imports[proc[p].done[1].item] = 0

\* the number of times import_raw returned for a message carrying the
\* identifier mid
Delivered(mid) ==
    LET S == {m \in Universe : m.mid = mid}
        Sum[T \in SUBSET S] ==
            IF T = {} THEN 0
            ELSE LET m == CHOOSE x \in T : TRUE
                 IN  imports[m] + Sum[T \ {m}]
    IN  Sum[S]

\* C16: whatever way two fast passes overlap, a message identifier is
\* handed to import_raw at most once: the pass that comes second to it
\* skips it as seen or as a duplicate.
C16_OverlapDeliversOnce ==
    \A mid \in Mids \ {""} : Delivered(mid) <= 1

\* C17: in a pass that is not a dry run, every identifier for which
\* import_raw has returned is in the pass's seen set from then on, and so in
\* seen.json once the pass has written it.
C17_ImportedAreSeen ==
    \A p \in Procs :
       (proc[p].pc # "idle" /\ ~proc[p].dry_run) =>
          /\ proc[p].imported \subseteq proc[p].seen
          /\ proc[p].pc = "save_dups" =>
                (seenFile # NONE /\ proc[p].imported \subseteq seenFile[1])

\* a fast pass that imported a message with an identifier, and for which
\* import_raw raised on another candidate, has just written seen.json
C17_Witness ==
    \E p \in Procs :
       /\ proc[p].pc = "save_dups"
       /\ proc[p].mode = "fast"
       /\ proc[p].imported # {}
       /\ proc[p].failed # {}
       /\ seenFile # NONE
       /\ proc[p].imported \subseteq seenFile[1]
       /\ \E m \in Universe : m.mid \in proc[p].imported /\ imports[m] > 0

\* C18: a test pass run with TEST_DRY_RUN as shipped ignores the watermark
\* and the seen set, calls import_raw for no candidate, and leaves the
\* three files as they were when it started.
C18_TestPassIsDryRun ==
    \A p \in Procs :
       (/\ proc[p].mode = "test"
        /\ cfg.TEST_DRY_RUN = DefaultCfg.TEST_DRY_RUN
        /\ proc[p].pc \in {"loop", "finalize"}) =>
          /\ proc[p].ignore_state
          /\ proc[p].ignore_seen
          /\ proc[p].calls = 0
          /\ <<stateFile, seenFile, dupFile>> = proc[p].files0

\* C19: when a fast or deep pass has ended without saving its state (a
\* folder pass or a write raised), the trigger has not answered with the
\* success value "ok", 200.
C19_FailureReported ==
    (hist.mode \in {"fast", "deep"} /\ ~hist.saved) => hist.returned # "ok"

\* C20: in a folder pass that respects the watermark and finds one stored,
\* the value used is the stored one when that is not later than the wall
\* clock at the listing, and the wall clock minus one minute when it is:
\* last_dt and the first value of newest are the value used, the threshold
\* is the later of the value used minus the grace period and the age
\* cutoff, and the pass goes on to list the folder and examine the
\* candidates past that threshold.
C20_FutureWatermarkClamped ==
    \A p \in Procs :
       LET r == proc[p]
           f == FolderOf(r.state_key)
           W == StoredWatermark(Some(r.at[f].state), DtKey(r.state_key))
           t == r.at[f].t
           used == IF W[1] > t THEN t - 1 ELSE W[1]
       IN  (r.pc \in {"loop", "finalize"} /\ ~r.ignore_state /\ W # NONE) =>
              /\ r.last_dt = Some(used)
              /\ r.done = <<>> => r.newest = Some(used)
              /\ r.newest # NONE /\ r.newest[1] >= used
              /\ r.threshold = Some(Max(used - SYNC_GRACE_MINUTES,
                                        t - import_last_days * MinutesPerDay))
              /\ r.listed = {m \in source : m.folder = f /\ m.dt > r.threshold[1]}
              /\ \A i \in 1..Len(r.window) : r.window[i] \in r.listed

\* a fast pass found the inbox watermark later than the wall clock and is
\* about to examine the first candidate of its listing, with last_dt and
\* newest one minute before the wall clock
C20_Witness ==
    \E p \in Procs :
       LET r == proc[p]
           W == StoredWatermark(Some(r.at["inbox"].state), "inbox_dt")
       IN  /\ r.pc = "loop" /\ r.mode = "fast" /\ r.state_key = "inbox"
           /\ r.done = <<>>
           /\ W # NONE /\ W[1] > r.at["inbox"].t
           /\ r.last_dt = Some(r.at["inbox"].t - 1)
           /\ r.newest = r.last_dt
           /\ r.threshold = Some(r.at["inbox"].t - 1 - SYNC_GRACE_MINUTES)

\* C21: in a pass whose folder passes run with dry_run set, import_raw is
\* called for no candidate, the seen set stays the one loaded and so does
\* every watermark of the state, whatever the folders hold.
C21_DryRunNoDelivery ==
    \A p \in Procs :
       (proc[p].dry_run /\ proc[p].pc \in {"list", "loop", "finalize"}) =>
          /\ proc[p].calls = 0
          /\ proc[p].imported = {}
          /\ proc[p].seen = LoadSeen(proc[p].files0[2])
          /\ proc[p].state = LoadState(proc[p].files0[1])
          /\ \A i \in 1..Len(proc[p].done) :
                proc[p].done[i].kind \in {"dry", "dup"}

\* a dry-run folder pass has gone through two candidates, one of them with
\* an identifier that is not in the seen set, and counted both
C21_Witness ==
    \E p \in Procs :
       /\ proc[p].dry_run /\ proc[p].pc = "finalize"
       /\ proc[p].count = 2
       /\ Len(proc[p].done) = 2
       /\ \E i \in 1..2 : /\ proc[p].done[i].kind = "dry"
                            /\ proc[p].done[i].item.mid # ""
                            /\ proc[p].done[i].item.mid \notin proc[p].seen
       /\ proc[p].newest # NONE

\* whether every record of the duplicate cache a is in the cache b as it
\* is, or gone from it
RecordsKept(a, b) == \A r \in a : r \in b \/ r.message_id \notin DbKeys(b)

\* C22: a record of the duplicate cache never changes: from one step to
\* the next every record of a pass's duplicates_db, and every record of
\* duplicates.json, is still there with the same fields or has been
\* deleted.
C22_RecordImmutable ==
    [][/\ \A p \in Procs :
            (proc[p].pc # "idle" /\ proc'[p].pc # "idle") =>
               RecordsKept(proc[p].duplicates_db, proc'[p].duplicates_db)
       /\ (dupFile # NONE /\ dupFile' # NONE) =>
               RecordsKept(dupFile[1], dupFile'[1])]_vars

\* C23: the duplicates.json that a fast or a deep pass writes holds no
\* record that was already stale when the pass listed its first folder (a
\* sweep run after the folders and before the save would have removed it).
C23_SweepBeforeSave ==
    [][\A p \in Procs :
          (proc[p].pc = "save_dups" /\ proc'[p].pc = "idle") =>
             \A r \in dupFile'[1] :
                ~(r.detected_at < TimeTime(proc[p].at["inbox"].t)
                                     - CLEANUP_MAX_AGE_DAYS * 24 * 3600)]_vars


\* C24: a candidate that reaches the duplicate check while duplicates_db
\* holds a record for its identifier that is not stale is taken for a
\* duplicate, and no remote query is issued for it.
C24_CacheAvoidsQuery ==
    \A p \in Procs :
       LET e == proc[p].ev IN
       (/\ e.kind \in {"dup", "imported", "import_failed", "dry"}
        /\ \E r \in e.db0 :
              /\ r.message_id = e.item.mid
              /\ ~(r.detected_at < TimeTime(now) - CLEANUP_MAX_AGE_DAYS * 24 * 3600)) =>
          /\ e.kind = "dup"
          /\ ~e.queried

\* C25: the threshold of every folder pass of a fast pass is computed from
\* the age window IMPORT_LAST_DAYS as configured, whatever other pass runs
\* at the same time.
C25_FastUsesDefaultWindow ==
    \A p \in Procs :
       LET r == proc[p]
           cutoff == r.at[FolderOf(r.state_key)].t - IMPORT_LAST_DAYS * MinutesPerDay
       IN  (r.mode = "fast" /\ r.pc \in {"loop", "finalize"}) =>
              r.threshold = Some(IF r.last_dt # NONE
                                 THEN Max(cutoff, r.last_dt[1] - SYNC_GRACE_MINUTES)
                                 ELSE cutoff)

\* C26: whenever no deep pass is between its change of sync.IMPORT_LAST_DAYS
\* and its end, sync.IMPORT_LAST_DAYS has the configured value.
C26_WindowRestored ==
    (\A p \in Procs : ~(proc[p].mode = "deep" /\ proc[p].pc \notin {"idle", "connect"})) =>
       import_last_days = IMPORT_LAST_DAYS

\* C27: whenever seen.json is written, by whatever pass and whatever pass
\* runs at the same time, it holds every identifier it held before.
C27_SeenFileGrows ==
    [][seenFile # NONE => (seenFile' # NONE /\ seenFile[1] \subseteq seenFile'[1])]_vars

\* C28: whenever state.json is written by one of two fast passes that run
\* at the same time, the watermark of each folder is at least what the file
\* held before.
C28_OverlapWatermarkGrows ==
    [][\A k \in {"inbox_dt", "sent_dt"} :
          LET old == StoredWatermark(stateFile, k)
              new == StoredWatermark(stateFile', k)
          IN  old # NONE => (new # NONE /\ new[1] >= old[1])]_vars

\* C29: a deep pass does not read the watermarks of the fast passes (its
\* folder passes start without a watermark) and does not change them: the
\* inbox_dt and sent_dt of its state are the loaded ones throughout, and so
\* are those of the state.json it writes.
C29_DeepLeavesWatermarks ==
    \A p \in Procs :
       LET r == proc[p] IN
       (r.mode = "deep" /\ r.pc # "idle") =>
          /\ \A k \in {"inbox_dt", "sent_dt"} :
                Get(r.state, k) = Get(LoadState(r.files0[1]), k)
          /\ r.pc \in {"loop", "finalize"} =>
                (r.last_dt = NONE /\ r.ignore_state)
          /\ r.pc \in {"save_seen", "save_dups"} =>
                \A k \in {"inbox_dt", "sent_dt"} :
                   StoredWatermark(stateFile, k) = StoredWatermark(r.files0[1], k)

\* a deep pass that started from a state.json with an inbox watermark of
\* 400 and met a later message has just written state.json, with the same
\* watermark
C29_Witness ==
    \E p \in Procs :
       /\ proc[p].mode = "deep" /\ proc[p].pc = "save_seen"
       /\ StoredWatermark(proc[p].files0[1], "inbox_dt") = Some(400)
       /\ StoredWatermark(stateFile, "inbox_dt") = Some(400)
       /\ \E m \in source : m.folder = "inbox" /\ m.dt > 400 /\ imports[m] > 0

\* C30: in a test pass with TEST_LIMIT = N the number of messages counted
\* over the inbox and the sent folder together is at most N, and the sent
\* folder is processed only when the inbox counted fewer than N.
C30_TestCeiling ==
    \A p \in Procs :
       LET r == proc[p]
           N == cfg.TEST_LIMIT[1]
           inbox == IF r.state_key = "inbox" THEN r.count ELSE N - r.remaining
           sent == IF r.state_key = "inbox" THEN 0 ELSE r.count
       IN  (r.mode = "test" /\ r.pc \in {"loop", "finalize"}) =>
              /\ inbox + sent <= N
              /\ r.state_key = "sent" => inbox < N

\* C31: in a sequence of fast and deep passes, failing or not, import_raw
\* is called for a candidate with an identifier, after a duplicate query
\* that answered without error, only when no message with that identifier
\* has been delivered before.
C31_IdentifiedDeliveredOnce ==
    [][\A p \in Procs :
          LET r == proc[p]
              n == proc'[p]
          IN  (/\ r.pc = "loop" /\ r.mode \in {"fast", "deep"}
               /\ Len(n.done) = Len(r.done) + 1
               /\ n.done[Len(n.done)].kind = "imported"
               /\ r.qs[1].mid # ""
               /\ ~n.ev.qerr) =>
                 /\ Delivered(r.qs[1].mid) = 0
                 /\ r.qs[1].mid \notin gmailPre]_vars

\* a pass imported a message with an identifier and failed before it saved
\* anything; the next pass, which loaded no seen set, has met the message
\* again and skipped it as a duplicate after a query without error
C31_Witness ==
    \E p \in Procs :
       LET e == proc[p].ev IN
       /\ proc[p].mode \in {"fast", "deep"}
       /\ proc[p].files0[2] = NONE
       /\ ~hist.saved /\ hist.mode \in {"fast", "deep"}
       /\ e.kind = "dup" /\ e.queried /\ ~e.qerr
       /\ e.item.mid # "" /\ e.item.mid \notin gmailPre
       /\ imports[e.item] = 1
       /\ Delivered(e.item.mid) = 1

\* the item states of a message: a message without an entry counts as
\* all unchecked, as handle_update takes it
StatesOf(cs, id) == IF cs[id] = NONE THEN AllFalse ELSE cs[id][1]

\* callback data naming an item of the checklist, and data that names none
InRangeData == {<<"t", ":", "0">>, <<"t", ":", "1", "4">>}
InRangeIndex(data) == IF data = <<"t", ":", "0">> THEN 0 ELSE 14
BadData == {<<"t", ":", "1", "5">>, <<"t", ":", "-", "1">>, <<"t", ":", "x">>,
            <<"t", ":">>, <<"x", ":", "0">>, <<>>}

\* the handler that ran last was given a callback for an item of a message
IsToggle(e) ==
    /\ e.kind = "callback"
    /\ e.data \in InRangeData
    /\ e.chat_id # NONE
    /\ e.msg_id # NONE

\* C32: a callback 't:<idx>' for a checklist message with 0 <= idx < number
\* of items flips the state of item idx of that message and changes no other
\* item of any message; two such callbacks in a row for the same item leave
\* the states as they were; a callback whose index is out of range or not a
\* number, or whose data does not start with 't:', changes no item state.
C32_ChecklistToggle ==
    [][botEv'.n = botEv.n + 1 =>
       /\ IsToggle(botEv') =>
             \A id \in MsgIdSet, i \in 1..TemplateLen :
                StatesOf(CHECKLIST_STATE', id)[i] =
                   IF id = botEv'.msg_id[1] /\ i = InRangeIndex(botEv'.data) + 1
                   THEN ~StatesOf(CHECKLIST_STATE, id)[i]
                   ELSE StatesOf(CHECKLIST_STATE, id)[i]
       /\ (/\ IsToggle(botEv) /\ IsToggle(botEv')
           /\ botEv'.msg_id = botEv.msg_id /\ botEv'.data = botEv.data) =>
             \A id \in MsgIdSet :
                StatesOf(CHECKLIST_STATE', id) = StatesOf(botEv.before, id)
       /\ (botEv'.kind = "callback" /\ botEv'.data \in BadData) =>
             \A id \in MsgIdSet :
                StatesOf(CHECKLIST_STATE', id) = StatesOf(CHECKLIST_STATE, id)
      ]_vars

\* The same holds of the callbacks handle_update gets to look at, those
\* whose answer to Telegram did not raise.
C32_ToggleWhenAnswered ==
    [][(botEv'.n = botEv.n + 1 /\ ~botEv'.raised) =>
       /\ IsToggle(botEv') =>
             \A id \in MsgIdSet, i \in 1..TemplateLen :
                StatesOf(CHECKLIST_STATE', id)[i] =
                   IF id = botEv'.msg_id[1] /\ i = InRangeIndex(botEv'.data) + 1
                   THEN ~StatesOf(CHECKLIST_STATE, id)[i]
                   ELSE StatesOf(CHECKLIST_STATE, id)[i]
       /\ (/\ IsToggle(botEv) /\ IsToggle(botEv') /\ ~botEv.raised
           /\ botEv'.msg_id = botEv.msg_id /\ botEv'.data = botEv.data) =>
             \A id \in MsgIdSet :
                StatesOf(CHECKLIST_STATE', id) = StatesOf(botEv.before, id)
       /\ (botEv'.kind = "callback" /\ botEv'.data \in BadData) =>
             \A id \in MsgIdSet :
                StatesOf(CHECKLIST_STATE', id) = StatesOf(CHECKLIST_STATE, id)
      ]_vars

\* the checklists the cron endpoint has delivered that count for a call at
\* time t: delivered on the same calendar day, less than one hour before
SentInWindow(ch, t) ==
    {k \in 1..Len(ch) : /\ ch[k].via = "cron"
                        /\ Today(ch[k].at) = Today(t)
                        /\ (t - ch[k].at) < 60}

\* C33: a call of daily_checklist skips sending exactly when a checklist was
\* delivered by an earlier call on the same calendar day and less than one
\* hour before; so the calls inside that window deliver at most one
\* checklist.
C33_ResendGuard ==
    [][(botEv'.n = botEv.n + 1 /\ botEv'.kind = "daily") =>
         /\ (botEv'.result = "skipped") <=> (SentInWindow(chat, botNow) # {})
         /\ \A j, k \in 1..Len(chat') :
               (/\ j < k
                /\ chat'[j].via = "cron" /\ chat'[k].via = "cron"
                /\ Today(chat'[j].at) = Today(chat'[k].at)) =>
                  chat'[k].at - chat'[j].at >= 60
      ]_vars

====
